---- MODULE Spec2Model ----
(***************************************************************************)
(* A model of the lilwil test-execution core: Value rendering and          *)
(* conversion, the Context event log and dispatch, the TestAdapter that    *)
(* wraps a test body, and the driver's run_test.                           *)
(***************************************************************************)
EXTENDS Integers, Sequences, FiniteSets, TLC

(***************************************************************************)
(* Bounds of the model.                                                    *)
(***************************************************************************)
\* The number of Context operations (info, capture, require) a test body performs.
MaxOps == 3
\* The largest number of parameters (after the Context) of a test signature.
MaxArity == 2
\* The deepest nesting of section() calls.
MaxDepth == 2

(***************************************************************************)
(* Event kinds (Context.h:352-357).                                        *)
(***************************************************************************)
Failure == 0
Success == 1
Exception == 2
Timing == 3
Skipped == 4
Traceback == 5

Events == {Failure, Success, Exception, Timing, Skipped, Traceback}

(***************************************************************************)
(* Strings.  A C++ string is a sequence of units: a run of printable       *)
(* characters, or one non-printable byte given by its code.                *)
(***************************************************************************)
P(t) == [isprint |-> TRUE, text |-> t, code |-> 0]
NP(c) == [isprint |-> FALSE, text |-> "", code |-> c]

HexDigits == <<"0", "1", "2", "3", "4", "5", "6", "7", "8", "9", "A", "B", "C", "D", "E", "F">>

\* std::uppercase << std::hex << std::setfill('0') << std::setw(2) << code
Hex2(code) == HexDigits[(code \div 16) + 1] \o HexDigits[(code % 16) + 1]

\* ToString<std::string>: printable characters are kept, every other byte
\* is written as \xHH.  The result is printable text.
RECURSIVE ToString_string(_)
ToString_string(s) ==
    IF s = <<>> THEN ""
    ELSE (IF Head(s).isprint THEN Head(s).text ELSE "\\x" \o Hex2(Head(s).code))
         \o ToString_string(Tail(s))

\* std::to_string of an integral value.
ToString_integral(n) == ToString(n)

(***************************************************************************)
(* Value: a type-erased payload with a bound formatter.                    *)
(***************************************************************************)
EmptyValue == [type |-> "empty", b |-> FALSE, n |-> 0, s |-> <<>>]
BoolValue(x) == [type |-> "bool", b |-> x, n |-> 0, s |-> <<>>]
IntValue(x) == [type |-> "int", b |-> FALSE, n |-> x, s |-> <<>>]
IntegerValue(x) == [type |-> "Integer", b |-> FALSE, n |-> x, s |-> <<>>]
RealValue(x) == [type |-> "Real", b |-> FALSE, n |-> x, s |-> <<>>]
StringValue(x) == [type |-> "std::string", b |-> FALSE, n |-> 0, s |-> x]
StringViewValue(x) == [type |-> "std::string_view", b |-> FALSE, n |-> 0, s |-> x]
CStrValue(x) == [type |-> "char const *", b |-> FALSE, n |-> 0, s |-> x]
UCharValue(x) == [type |-> "unsigned char", b |-> FALSE, n |-> x, s |-> <<>>]

SizeValue(x) == [type |-> "std::size_t", b |-> FALSE, n |-> x, s |-> <<>>]

\* enum class Ops {eq, ne, lt, gt, le, ge, near, custom}
Ops == <<"eq", "ne", "lt", "gt", "le", "ge", "near", "custom">>

\* A Value that holds an Ops: n is the enumerator's number.
OpsValue(o) ==
    [type |-> "lilwil::Ops", b |-> FALSE,
     n |-> (CHOOSE i \in 1..Len(Ops) : Ops[i] = o) - 1, s |-> <<>>]

\* A Value that holds a std::vector<int>; s keeps the elements, one code
\* each.
VectorValue(v) ==
    [type |-> "std::vector<int>", b |-> FALSE, n |-> 0, s |-> [i \in DOMAIN v |-> NP(v[i])]]

\* A double that is no number (0.0 / 0) or infinite (x / 0 with x > 0).
NotANumber == [type |-> "Real", b |-> FALSE, n |-> 0, s |-> <<P("nan")>>]
Infinity == [type |-> "Real", b |-> FALSE, n |-> 0, s |-> <<P("inf")>>]

\* ToString<Ops>: the symbol of the relation.
ToString_Ops(n) == <<"==", "!=", "<", ">", "<=", ">=", "~", "custom">>[n + 1]

has_value(a) == a.type # "empty"

\* type_name(typeid): the demangled name of the stored or requested type.
type_name(t) ==
    CASE t = "Integer" -> "long"
      [] t = "Real" -> "double"
      [] OTHER -> t

StringTypes == {"std::string", "std::string_view", "char const *"}
IntegralTypes == {"bool", "unsigned char", "int", "Integer"}

\* Value::to_string: "" for an empty Value, else the bound ToString<T>.
to_string(a) ==
    CASE ~has_value(a) -> ""
      [] a.type = "bool" -> ToString_integral(IF a.b THEN 1 ELSE 0)
      [] a.type \in {"unsigned char", "int", "Integer", "std::size_t"} ->
            ToString_integral(a.n)
      [] a.type = "lilwil::Ops" -> ToString_Ops(a.n)
      [] a.type \in StringTypes -> ToString_string(a.s)
      [] OTHER -> "<" \o type_name(a.type) \o ">"

(***************************************************************************)
(* Log entries and the AddKeyValue customisation points.                   *)
(***************************************************************************)
KeyValue(k, v) == [key |-> k, value |-> v]
KeyString(k, v) == [key |-> k, value |-> v]

Glue(k, v) == [key |-> k, value |-> v]

SourceLocation(f, l) == [file |-> f, line |-> l]
Comment(c, f, l) == [comment |-> c, location |-> SourceLocation(f, l)]
NoComment == Comment(<<>>, <<>>, 0)

\* AddKeyValue<T>: a plain message has the empty key.
AddKeyValue(v, t) == Append(v, KeyValue("", t))

\* AddKeyValue<Glue<K, V>>
AddKeyValue_Glue(v, g) == Append(v, KeyValue(g.key, g.value))

\* AddKeyValue<SourceLocation>
AddKeyValue_SourceLocation(v, g) ==
    IF g.file # <<>>
    THEN v \o <<KeyValue("__file", StringViewValue(g.file)),
                KeyValue("__line", IntValue(g.line))>>
    ELSE v

\* AddKeyValue<Comment>
AddKeyValue_Comment(v, c) ==
    AddKeyValue_SourceLocation(
        IF c.comment # <<>>
        THEN Append(v, KeyValue("__comment", StringViewValue(c.comment)))
        ELSE v,
        c.location)

\* The fold (AddKeyValue<Ts>()(logs, ts), ...) over a pack of Glue arguments.
RECURSIVE AddKeyValues(_, _)
AddKeyValues(v, ts) ==
    IF ts = <<>> THEN v
    ELSE AddKeyValues(AddKeyValue_Glue(v, Head(ts)), Tail(ts))

\* strings.emplace_back(log.key, log.value.to_string()) for every entry.
Finalize(kvs) == [i \in 1..Len(kvs) |-> KeyString(kvs[i].key, to_string(kvs[i].value))]

(***************************************************************************)
(* Conversion of an argument to a parameter type.                          *)
(***************************************************************************)
Converted(v) == [ok |-> TRUE, value |-> v, what |-> <<>>]
NotConverted(w) == [ok |-> FALSE, value |-> EmptyValue, what |-> w]

\* Value::no_conversion: the message of the std::invalid_argument it builds.
no_conversion(a, dest) ==
    IF has_value(a)
    THEN <<P("lilwil: no conversion from Value"
             \o (IF to_string(a) # "" THEN " " \o to_string(a) ELSE "")
             \o " (typeid '" \o type_name(a.type) \o "') to typeid '"
             \o type_name(dest) \o "'")>>
    ELSE <<P("lilwil: no conversion from empty Value to typeid '"
             \o type_name(dest) \o "'")>>

\* T(): the default-constructed value of a parameter type.
DefaultOf(T) ==
    CASE T = "bool" -> BoolValue(FALSE)
      [] T = "unsigned char" -> UCharValue(0)
      [] T = "int" -> IntValue(0)
      [] T = "Integer" -> IntegerValue(0)
      [] T = "Real" -> RealValue(0)
      [] T = "std::string" -> StringValue(<<>>)
      [] T = "std::string_view" -> StringViewValue(<<>>)

\* std::is_default_constructible_v<T>
is_default_constructible(T) == T # "std::type_index"

\* Value::target<T>: the payload if the stored type is exactly T, else
\* nullptr.
NoTarget == [ok |-> FALSE, value |-> EmptyValue, what |-> <<>>]

\* target<T> that converts between the integral types.
target_integral(T, a) ==
    IF has_value(a) /\ (a.type = T \/ (a.type \in IntegralTypes /\ T \in IntegralTypes))
    THEN Converted([a EXCEPT !.type = T])
    ELSE NoTarget

target(T, a) == IF has_value(a) /\ a.type = T THEN Converted(a) ELSE NoTarget

\* ViewAs with one more rule: a stored bool may be viewed as an integer.
ViewAs_bool_to_integer(T, a) ==
    CASE T = "bool" ->
            IF a.type = "Integer" THEN Converted(BoolValue(a.n # 0))
            ELSE NotConverted(no_conversion(a, T))
      [] T = "unsigned char" ->
            IF a.type = "Integer" THEN Converted(UCharValue(a.n % (2 ^ 8)))
            ELSE NotConverted(no_conversion(a, T))
      [] T \in {"int", "Integer"} ->
            IF a.type = "Integer" THEN Converted([a EXCEPT !.type = T])
            ELSE IF a.type = "bool"
            THEN Converted([type |-> T, b |-> FALSE, n |-> IF a.b THEN 1 ELSE 0, s |-> <<>>])
            ELSE NotConverted(no_conversion(a, T))
      [] T = "Real" ->
            IF a.type \in {"Real", "Integer"} THEN Converted(RealValue(a.n))
            ELSE NotConverted(no_conversion(a, T))
      [] T = "std::string_view" ->
            IF a.type = "std::string" THEN Converted(StringViewValue(a.s))
            ELSE NotConverted(no_conversion(a, T))
      [] T = "std::string" ->
            IF a.type \in {"std::string_view", "char const *"}
            THEN Converted(StringValue(a.s))
            ELSE NotConverted(no_conversion(a, T))
      [] OTHER -> NotConverted(no_conversion(a, T))

\* The ViewAs<T> specialisations: what is tried when the stored type is not T.
\* return *p converts the stored Integer to T implicitly: an unsigned char
\* keeps the low 8 bits.
ViewAs(T, a) ==
    CASE T = "bool" ->
            IF a.type = "Integer" THEN Converted(BoolValue(a.n # 0))
            ELSE NotConverted(no_conversion(a, T))
      [] T = "unsigned char" ->
            IF a.type = "Integer" THEN Converted(UCharValue(a.n % (2 ^ 8)))
            ELSE NotConverted(no_conversion(a, T))
      [] T \in {"int", "Integer"} ->
            IF a.type = "Integer" THEN Converted([a EXCEPT !.type = T])
            ELSE NotConverted(no_conversion(a, T))
      [] T = "Real" ->
            IF a.type \in {"Real", "Integer"} THEN Converted(RealValue(a.n))
            ELSE NotConverted(no_conversion(a, T))
      [] T = "std::string_view" ->
            IF a.type = "std::string" THEN Converted(StringViewValue(a.s))
            ELSE NotConverted(no_conversion(a, T))
      [] T = "std::string" ->
            IF a.type \in {"std::string_view", "char const *"}
            THEN Converted(StringValue(a.s))
            ELSE NotConverted(no_conversion(a, T))
      [] OTHER -> NotConverted(no_conversion(a, T))

\* view_as<T> that falls back on T() where no conversion exists.
view_as_lenient(T, a) ==
    IF ~has_value(a)
    THEN IF is_default_constructible(T) THEN Converted(DefaultOf(T))
         ELSE NotConverted(no_conversion(a, T))
    ELSE IF target(T, a).ok THEN target(T, a)
    ELSE IF ViewAs(T, a).ok \/ ~is_default_constructible(T) THEN ViewAs(T, a)
    ELSE Converted(DefaultOf(T))

\* Value::view_as<T>
view_as(T, a) ==
    IF ~has_value(a)
    THEN IF is_default_constructible(T) THEN Converted(DefaultOf(T))
         ELSE NotConverted(no_conversion(a, T))
    ELSE IF target(T, a).ok THEN target(T, a)
    ELSE ViewAs(T, a)

\* cast_index: the conversion of argument i to the i-th parameter type.
cast_index(v, sig, i) == view_as(sig[i], v[i])

\* wrong_number_string with the two counts exchanged.
wrong_number_string_swapped(r, e) ==
    <<P("wrong number of arguments (expected " \o ToString_integral(e)
        \o ", got " \o ToString_integral(r) \o ")")>>

\* wrong_number_string(r, e)
wrong_number_string(r, e) ==
    <<P("wrong number of arguments (expected " \o ToString_integral(r)
        \o ", got " \o ToString_integral(e) \o ")")>>

(***************************************************************************)
(* Exceptions.                                                             *)
(***************************************************************************)
Exc(t, w) == [type |-> t, what |-> w]
NoExc == Exc("none", <<>>)

\* Skip(s): a std::runtime_error with a source location (empty by default).
Skip(s) == Exc("Skip", s)

\* ClientError::what() of a ClientError with an empty message.
ClientError == Exc("ClientError", <<P("lilwil::ClientError")>>)

\* The types derived from std::exception; "other" is any type that is not.
StdExceptionTypes == {"Skip", "ClientError", "std::runtime_error", "std::invalid_argument"}

\* The types a handler must name to catch an exception of type t: the type
\* and its public bases.
Bases(t) ==
    CASE t = "Skip" -> {"Skip", "std::runtime_error", "std::exception"}
      [] t = "ClientError" -> {"ClientError", "std::exception"}
      [] t = "std::runtime_error" -> {"std::runtime_error", "std::exception"}
      [] t = "std::invalid_argument" -> {"std::invalid_argument", "std::exception"}
      [] OTHER -> {t}

\* catch (E const &) takes the exception e.
Catches(E, e) == E \in Bases(e.type)

\* Skip::as_comment
as_comment(e) == Comment(e.what, <<>>, 0)

(***************************************************************************)
(* The state.                                                              *)
(***************************************************************************)
VARIABLES
    handlers,     \* Base::handlers: handlers[e + 1] is TRUE iff a Handler is set for e
    throwing,     \* the event kinds whose Handler raises a ClientError when called
    counters,     \* Base::counters: the pointer (attached or null) and the vector
    ctx,          \* the Contexts: "ct" is the driver's, "body" the test body's copy
    calls,        \* the Handler calls made so far: (event, scopes, strings)
    trace,        \* the handle() calls entered so far
    pc,           \* where the invocation stands
    steps,        \* the number of Context operations the body has performed
    exc,          \* the exception raised inside the adapter's try block
    origin,       \* where exc was raised: "arity", "conversion", "body", "handler"
    result,       \* how TestAdapter::operator() ended
    driver,       \* how run_test ended
    entry,        \* the signature and arguments of a call that did not reach the body
    nTrue,        \* require(true) calls that have returned
    nFalse,       \* require(false) calls that have returned
    captured,     \* the entries the body has captured, in order
    pending,      \* the entries the body has logged since its last event
    lastHandle,   \* the Context whose handle() call has just returned, or "none"
    ceRaised,     \* a ClientError was raised by the body or by a Handler outside ~Context
    ceSwallowed,  \* a ClientError was raised by the Traceback Handler inside ~Context
    counted,      \* the count(e) call the body has just made, and how it ended
    sections,     \* the child Contexts of the section() calls in progress, outermost first
    names,        \* the names passed to the section() calls in progress, outermost first
    secResult,    \* what the section() call that ended last returned
    cases,        \* the Suite: the registered TestCases in order of registration
    mutex,        \* the suite's shared_timed_mutex: its exclusive and shared owners
    policy,       \* whether a waiting writer holds back new shared locks
    threads,      \* each thread's registry calls in progress and its last result
    version,      \* the number of structural changes the Suite has undergone
    registered,   \* the ids of the TestCases whose add_test call has returned
    erasures,     \* the number of TestCases set_value has erased
    initial,      \* the Suite before the threads started
    stored,       \* a Value some code holds
    viewed,       \* the view_as<T> or target<T> call made on it last, and its outcome
    asserted,     \* the assertion or timing call the body made last, and how it ended
    workers       \* the threads that dispatch events on Context copies: where each stands

\* The state of one adapted invocation under run_test.
coreVars == <<handlers, throwing, counters, ctx, calls, trace, pc, steps, exc, origin,
              result, driver, entry, nTrue, nFalse, captured, pending, lastHandle,
              ceRaised, ceSwallowed>>

\* The core state but pc.
coreButPc == <<handlers, throwing, counters, ctx, calls, trace, steps, exc, origin,
               result, driver, entry, nTrue, nFalse, captured, pending, lastHandle,
               ceRaised, ceSwallowed>>

\* The state only some operations touch.
countVars == <<counted>>
sectionVars == <<sections, names, secResult>>
registryVars == <<cases, mutex, policy, threads, version, registered, erasures, initial>>
valueVars == <<stored, viewed>>
assertVars == <<asserted>>
workerVars == <<workers>>
auxVars == <<valueVars, assertVars, workerVars>>
featureVars == <<countVars, sectionVars, registryVars, auxVars>>

vars == <<coreVars, featureVars>>

(***************************************************************************)
(* BaseContext: the log.                                                   *)
(***************************************************************************)
\* Context(scopes, handlers, counters): the log starts empty.
NewContext(scopes) == [logs |-> <<>>, reserved_logs |-> 0, scopes |-> scopes]

\* BaseContext::info(T)
info(c, t) == [c EXCEPT !.logs = AddKeyValue(@, t)]

\* BaseContext::info(K, V)
info_kv(c, k, v) == [c EXCEPT !.logs = Append(@, KeyValue(k, v))]

\* std::rotate(first, middle, last) on 0-based positions of a sequence.
rotate(s, first, middle, last) ==
    SubSeq(s, 1, first) \o SubSeq(s, middle + 1, last)
        \o SubSeq(s, first + 1, middle) \o SubSeq(s, last + 1, Len(s))

\* capture without the std::rotate: the new entries stay behind the ordinary ones.
capture_no_rotate(c, ts) ==
    LET n == Len(c.logs)
        logged == AddKeyValues(c.logs, ts)
    IN [c EXCEPT !.logs = logged,
                 !.reserved_logs = @ + (Len(logged) - n)]

\* capture without reserved_logs += logs.size() - n.
capture_unreserved(c, ts) ==
    LET n == Len(c.logs)
        logged == AddKeyValues(c.logs, ts)
    IN [c EXCEPT !.logs = rotate(logged, c.reserved_logs, n, Len(logged))]

\* BaseContext::capture(Ts...) with Glue arguments
capture(c, ts) ==
    LET n == Len(c.logs)
        logged == AddKeyValues(c.logs, ts)
    IN [c EXCEPT !.logs = rotate(logged, c.reserved_logs, n, Len(logged)),
                 !.reserved_logs = @ + (Len(logged) - n)]

(***************************************************************************)
(* BaseContext: event dispatch.  A world w is the Context c that acts,     *)
(* what it shares (counters), what is observed (calls, trace) and the      *)
(* exception that leaves the operation (exc).                              *)
(***************************************************************************)
World(id) ==
    [id |-> id, c |-> ctx[id], counters |-> counters, calls |-> calls,
     trace |-> trace, exc |-> NoExc]

Registered(e) == e < Len(handlers) /\ handlers[e + 1]

\* emit_event that hands the key pairs over ahead of the log entries.
emit_event_keypairs_first(w, e, keypairs) ==
    [w EXCEPT !.calls = Append(@, [event |-> e, scopes |-> w.c.scopes,
                                   strings |-> Finalize(keypairs) \o Finalize(w.c.logs)]),
              !.exc = IF e \in throwing THEN ClientError ELSE NoExc]

\* The Handler call: finalize the log, then the key pairs, and call the
\* Handler of e, which may raise.
emit_event(w, e, keypairs) ==
    [w EXCEPT !.calls = Append(@, [event |-> e, scopes |-> w.c.scopes,
                                   strings |-> Finalize(w.c.logs) \o Finalize(keypairs)]),
              !.exc = IF e \in throwing THEN ClientError ELSE NoExc]

\* update_counter without the final logs.erase(...).
update_counter_no_erase(w, e) ==
    [w EXCEPT !.counters.vec =
                  IF w.counters.attached /\ e < Len(w.counters.vec)
                  THEN [@ EXCEPT ![e + 1] = @ + 1] ELSE @]

\* Count the event if a counter array is attached and covers it, then
\* truncate the log to its reserved prefix.
update_counter(w, e) ==
    [w EXCEPT !.counters.vec =
                  IF w.counters.attached /\ e < Len(w.counters.vec)
                  THEN [@ EXCEPT ![e + 1] = @ + 1] ELSE @,
              !.c.logs = SubSeq(@, 1, w.c.reserved_logs)]

\* handle that counts an event only when a Handler is registered for it.
handle_registered_only(w, e, c, keypairs, ts) ==
    LET w0 == [w EXCEPT !.trace = Append(@, [id |-> w.id, event |-> e,
                                             scopes |-> w.c.scopes, logs |-> w.c.logs,
                                             comment |-> c, ts |-> ts,
                                             keypairs |-> keypairs])]
    IN IF Registered(e)
       THEN LET w1 == [w0 EXCEPT !.c.logs = AddKeyValues(AddKeyValue_Comment(@, c), ts)]
                w2 == emit_event(w1, e, keypairs)
            IN IF w2.exc # NoExc THEN w2 ELSE update_counter(w2, e)
       ELSE [w0 EXCEPT !.c.logs = SubSeq(@, 1, w.c.reserved_logs)]

\* BaseContext::handle(e, c, keypairs, ts...)
handle(w, e, c, keypairs, ts) ==
    LET w0 == [w EXCEPT !.trace = Append(@, [id |-> w.id, event |-> e,
                                             scopes |-> w.c.scopes, logs |-> w.c.logs,
                                             comment |-> c, ts |-> ts,
                                             keypairs |-> keypairs])]
    IN IF Registered(e)
       THEN LET w1 == [w0 EXCEPT !.c.logs = AddKeyValues(AddKeyValue_Comment(@, c), ts)]
                w2 == emit_event(w1, e, keypairs)
            IN IF w2.exc # NoExc THEN w2 ELSE update_counter(w2, e)
       ELSE update_counter(w0, e)

\* BaseContext::count(e): the counter of e, or -1 with no counter array.
count(e) == IF counters.attached THEN counters.vec[e + 1] ELSE -1

\* How a count(e) call ended: it returned a value or the process faulted;
\* outside tells whether it read behind the end of the counter array.
NoCount == [event |-> Failure, outcome |-> "none", value |-> 0, outside |-> FALSE]
CountReturned(e, n, out) == [event |-> e, outcome |-> "value", value |-> n, outside |-> out]
CountFaulted(e) == [event |-> e, outcome |-> "fault", value |-> 0, outside |-> TRUE]

\* What (*counters)[e.index] may read behind the end of the vector.
StrayValues == {-1, 0, 1}

\* The outcomes of count(e).  There is no test of e.index against
\* counters->size(): with e out of range the unchecked operator[] reads
\* behind the array, which yields any value or a fault.
count_outcomes(e) ==
    IF counters.attached /\ e >= Len(counters.vec)
    THEN {CountReturned(e, n, TRUE) : n \in StrayValues} \cup {CountFaulted(e)}
    ELSE {CountReturned(e, count(e), FALSE)}

\* require that reports Success whatever the condition.
require_always_success(w, ok, c, v) ==
    handle(w, Success, c, v, <<Glue("value", BoolValue(ok))>>)

\* Context::require(ok, c, v)
require(w, ok, c, v) ==
    handle(w, IF ok THEN Success ELSE Failure, c, v, <<Glue("value", BoolValue(ok))>>)

(***************************************************************************)
(* Context: relations, tolerances, exceptions and timing.  An outcome is   *)
(* the world the call leaves (its exc is the exception that leaves the     *)
(* call), the value the call returns if it returns, and how often the      *)
(* functor was invoked.                                                    *)
(***************************************************************************)
Outcome(w, v, invoked) == [w |-> w, value |-> v, invoked |-> invoked]

\* comparison_glue(l, r, op) with op an Ops: OpsOf<Ops> hands it through.
comparison_glue(l, r, op) == [left |-> l, right |-> r, relation |-> op]

\* AddKeyValue<ComparisonGlue<L, R>>
AddKeyValue_ComparisonGlue(v, t) ==
    v \o <<KeyValue("__lhs", t.left), KeyValue("__rhs", t.right),
           KeyValue("__op", OpsValue(t.relation))>>

\* require_args that also logs the condition, as require does.
require_args_value(w, ok, c, v, ts) ==
    Outcome(handle(w, IF ok THEN Success ELSE Failure, c, v,
                   ts \o <<Glue("value", BoolValue(ok))>>),
            BoolValue(ok), 0)

\* Context::require_args(ok, c, v, ts...)
require_args(w, ok, c, v, ts) ==
    Outcome(handle(w, IF ok THEN Success ELSE Failure, c, v, ts), BoolValue(ok), 0)

\* Context::equal(l, r, c, v) and its five siblings, on int operands.
equal(w, l, r, c, v) ==
    require_args(w, l = r, c, v,
        AddKeyValue_ComparisonGlue(<<>>, comparison_glue(IntValue(l), IntValue(r), "eq")))

not_equal(w, l, r, c, v) ==
    require_args(w, l # r, c, v,
        AddKeyValue_ComparisonGlue(<<>>, comparison_glue(IntValue(l), IntValue(r), "ne")))

less(w, l, r, c, v) ==
    require_args(w, l < r, c, v,
        AddKeyValue_ComparisonGlue(<<>>, comparison_glue(IntValue(l), IntValue(r), "lt")))

greater(w, l, r, c, v) ==
    require_args(w, l > r, c, v,
        AddKeyValue_ComparisonGlue(<<>>, comparison_glue(IntValue(l), IntValue(r), "gt")))

less_eq(w, l, r, c, v) ==
    require_args(w, l <= r, c, v,
        AddKeyValue_ComparisonGlue(<<>>, comparison_glue(IntValue(l), IntValue(r), "le")))

greater_eq(w, l, r, c, v) ==
    require_args(w, l >= r, c, v,
        AddKeyValue_ComparisonGlue(<<>>, comparison_glue(IntValue(l), IntValue(r), "ge")))

\* Within<T>::operator()(l, r): whether l and r are equal or closer than
\* the tolerance, and the member difference afterwards.  With l == r the
\* member is never assigned: it keeps whatever it held (stale).
Within(tolerance, l, r, stale) ==
    IF l = r THEN [ok |-> TRUE, difference |-> stale]
    ELSE LET a == l - r
             b == r - l
             difference == IF a < b THEN b ELSE a
         IN [ok |-> difference < tolerance, difference |-> difference]

\* OpsOf<T>: the primary template gives Ops::custom; the specialisations
\* are those the LILWIL_TMP lines list.
OpsOf(T) ==
    CASE T = "std::not_equal_to" -> "eq"
      [] T = "std::less" -> "lt"
      [] T = "std::greater" -> "gt"
      [] T = "std::greater_equal" -> "ge"
      [] T = "std::less_equal" -> "le"
      [] T \in {"Near", "Within"} -> "near"
      [] OTHER -> "custom"

\* compare(a, b) for the function objects of <functional>; "lambda" is
\* [](int a, int b) {return a % 2 == b % 2;}.
Compare(T, a, b) ==
    CASE T = "std::equal_to" -> a = b
      [] T = "std::not_equal_to" -> a # b
      [] T = "std::less" -> a < b
      [] T = "std::greater" -> a > b
      [] T = "std::less_equal" -> a <= b
      [] T = "std::greater_equal" -> a >= b
      [] OTHER -> a % 2 = b % 2

\* std::equal(first1, last1, first2, last2, compare)
std_equal(l, r, T) ==
    /\ Len(l) = Len(r)
    /\ \A i \in 1..Len(l) : Compare(T, l[i], r[i])

\* Context::all(compare, l, r, c, v) on two std::vector<int>.
all(w, T, l, r, c, v) ==
    require_args(w, std_equal(l, r, T), c, v,
        AddKeyValue_ComparisonGlue(<<>>,
            comparison_glue(VectorValue(l), VectorValue(r), OpsOf(T))))

\* Context::within(l, r, tol, c, v): the tolerance is the third parameter.
within(w, l, r, tol, c, v, stale) ==
    LET comp == Within(tol, l, r, stale)
    IN require_args(w, comp.ok, c, v,
           AddKeyValue_ComparisonGlue(<<>>,
               comparison_glue(IntValue(l), IntValue(r), "near"))
           \o <<Glue("tolerance", IntValue(tol)),
                Glue("difference", IntValue(comp.difference))>>)

\* A functor f: it raises e on its at-th invocation (at = 0: never) and
\* returns value otherwise (EmptyValue: it returns void).
Functor(at, e, value) == [at |-> at, e |-> e, value |-> value]

\* The outcome of invoking f up to n times in a row: the number of
\* invocations started, and the exception that ended them, if any.
Invoke(f, n) ==
    IF f.at # 0 /\ f.at <= n THEN [invoked |-> f.at, exc |-> f.e]
    ELSE [invoked |-> n, exc |-> NoExc]

\* throw_as with catch (...) in place of catch (Exception const &).
throw_as_any(w, E, f, c, v) ==
    LET i == Invoke(f, 1)
    IN IF i.exc # NoExc
       THEN [require_args(w, TRUE, c, v, <<>>) EXCEPT !.invoked = 1]
       ELSE LET r == require_args(w, FALSE, c, v, <<>>)
            IN IF r.w.exc # NoExc
               THEN [require_args([r.w EXCEPT !.exc = NoExc], TRUE, c, v, <<>>)
                         EXCEPT !.invoked = 1]
               ELSE [r EXCEPT !.invoked = 1]

\* Context::throw_as<Exception>(f, c, v).  The try block holds the
\* invocation and require_args(false): what either raises is caught if it
\* is an Exception, and leaves the call otherwise.
throw_as(w, E, f, c, v) ==
    LET i == Invoke(f, 1)
    IN IF i.exc # NoExc
       THEN IF Catches(E, i.exc)
            THEN [require_args(w, TRUE, c, v, <<>>) EXCEPT !.invoked = 1]
            ELSE Outcome([w EXCEPT !.exc = i.exc], EmptyValue, 1)
       ELSE LET r == require_args(w, FALSE, c, v, <<>>)
            IN IF r.w.exc # NoExc /\ Catches(E, r.w.exc)
               THEN [require_args([r.w EXCEPT !.exc = NoExc], TRUE, c, v, <<>>)
                         EXCEPT !.invoked = 1]
               ELSE [r EXCEPT !.invoked = 1]

\* Context::no_throw(f, c, v): catch (ClientError const &) {throw;}
\* catch (...) {return require_args(false, c, v);}
no_throw(w, f, c, v) ==
    LET i == Invoke(f, 1)
    IN IF i.exc # NoExc
       THEN IF Catches("ClientError", i.exc)
            THEN Outcome([w EXCEPT !.exc = i.exc], EmptyValue, 1)
            ELSE [require_args(w, FALSE, c, v, <<>>) EXCEPT !.invoked = 1]
       ELSE LET r == require_args(w, TRUE, c, v, <<>>)
            IN IF r.w.exc # NoExc /\ ~Catches("ClientError", r.w.exc)
               THEN [require_args([r.w EXCEPT !.exc = NoExc], FALSE, c, v, <<>>)
                         EXCEPT !.invoked = 1]
               ELSE [r EXCEPT !.invoked = 1]

\* Context::timed(f, c, v): one invocation, then one Timing event with the
\* seconds elapsed and, unless f returns void, the result.
timed(w, f, elapsed, c, v) ==
    LET i == Invoke(f, 1)
    IN IF i.exc # NoExc THEN Outcome([w EXCEPT !.exc = i.exc], EmptyValue, 1)
       ELSE Outcome(handle(w, Timing, c, v,
                           <<Glue("seconds", RealValue(elapsed))>>
                           \o (IF has_value(f.value) THEN <<Glue("result", f.value)>>
                               ELSE <<>>)),
                    f.value, 1)

\* elapsed / n in double arithmetic.
Average(elapsed, n) ==
    IF n # 0 THEN RealValue(elapsed \div n)
    ELSE IF elapsed = 0 THEN NotANumber ELSE Infinity

\* timing with a loop that runs once too often.
timing_one_more(w, n, f, elapsed, c, v) ==
    LET i == Invoke(f, n + 1)
    IN IF i.exc # NoExc
       THEN Outcome([w EXCEPT !.exc = i.exc], EmptyValue, i.invoked)
       ELSE Outcome(handle(w, Timing, c, v,
                           <<Glue("seconds", RealValue(elapsed)),
                             Glue("repeats", SizeValue(n)),
                             Glue("average", Average(elapsed, n))>>),
                    RealValue(elapsed), i.invoked)

\* Context::timing(n, f, c, v): n invocations, then one Timing event with
\* the seconds elapsed, n and their quotient; returns the seconds.
timing(w, n, f, elapsed, c, v) ==
    LET i == Invoke(f, n)
    IN IF i.exc # NoExc
       THEN Outcome([w EXCEPT !.exc = i.exc], EmptyValue, i.invoked)
       ELSE Outcome(handle(w, Timing, c, v,
                           <<Glue("seconds", RealValue(elapsed)),
                             Glue("repeats", SizeValue(n)),
                             Glue("average", Average(elapsed, n))>>),
                    RealValue(elapsed), i.invoked)

\* ~Context without the test of std::uncaught_exceptions().
Context_dtor_always(w, uncaught_exceptions) ==
    [handle(w, Traceback, NoComment, <<>>, <<>>) EXCEPT !.exc = NoExc]

\* Context::~Context: while an exception unwinds, dispatch Traceback and
\* swallow whatever that raises.
Context_dtor(w, uncaught_exceptions) ==
    IF uncaught_exceptions = 0 THEN w
    ELSE [handle(w, Traceback, NoComment, <<>>, <<>>) EXCEPT !.exc = NoExc]

\* section() whose child keeps the parent's scope stack as it is.
section_no_push(c, name) == NewContext(c.scopes)

\* section() whose child is a copy of the parent, log included.
section_copy(c, name) == [c EXCEPT !.scopes = Append(@, name)]

\* Context::section: the child Context handed to the functor, built by
\* Context ctx(scopes, handlers, counters); ctx.scopes.push_back(name).
section(c, name) == NewContext(Append(c.scopes, name))

(***************************************************************************)
(* TestAdapter<F>::operator() and run_test.                                *)
(***************************************************************************)
\* The arguments whose conversion to the declared parameter type fails.
Failing(sig, args) == {i \in 1..Len(sig) : ~cast_index(args, sig, i).ok}

\* The try block reporting a failed conversion as a Skip.
TestAdapter_try_skip(sig, args, first) ==
    IF Len(args) # Len(sig)
    THEN Skip(wrong_number_string(Len(sig), Len(args)))
    ELSE IF Failing(sig, args) # {}
    THEN Skip(cast_index(args, sig, first).what)
    ELSE NoExc

\* The try block up to the call of the body: the exception it raises, or
\* NoExc when the body is invoked.  The conversions are function arguments,
\* evaluated in an unspecified order: first is the failing one evaluated first.
TestAdapter_try(sig, args, first) ==
    IF Len(args) # Len(sig)
    THEN Skip(wrong_number_string(Len(sig), Len(args)))
    ELSE IF Failing(sig, args) # {}
    THEN Exc("std::invalid_argument", cast_index(args, sig, first).what)
    ELSE NoExc

\* The catch clauses with std::exception ahead of Skip: a Skip, which is a
\* std::runtime_error, is reported as an Exception.
TestAdapter_catch_std_first(w, e) ==
    CASE e.type = "ClientError" -> [w EXCEPT !.exc = e]
      [] e.type \in StdExceptionTypes \ {"ClientError"} ->
            LET w1 == handle([w EXCEPT !.c = info_kv(@, "reason", CStrValue(e.what))],
                             Exception, NoComment, <<>>, <<>>)
            IN IF w1.exc # NoExc THEN w1 ELSE [w1 EXCEPT !.exc = e]
      [] OTHER ->
            LET w1 == handle(w, Exception, NoComment, <<>>, <<>>)
            IN IF w1.exc # NoExc THEN w1 ELSE [w1 EXCEPT !.exc = e]

\* The catch clauses without ct.info("reason", e.what()).
TestAdapter_catch_no_reason(w, e) ==
    CASE e.type = "Skip" ->
            LET w1 == handle(w, Skipped, as_comment(e), <<>>, <<>>)
            IN IF w1.exc # NoExc THEN w1 ELSE [w1 EXCEPT !.exc = e]
      [] e.type = "ClientError" -> [w EXCEPT !.exc = e]
      [] OTHER ->
            LET w1 == handle(w, Exception, NoComment, <<>>, <<>>)
            IN IF w1.exc # NoExc THEN w1 ELSE [w1 EXCEPT !.exc = e]

\* The catch clauses, in order: Skip, ClientError, std::exception, (...).
\* w.exc is the exception that leaves the adapter.
TestAdapter_catch(w, e) ==
    CASE e.type = "Skip" ->
            LET w1 == handle(w, Skipped, as_comment(e), <<>>, <<>>)
            IN IF w1.exc # NoExc THEN w1 ELSE [w1 EXCEPT !.exc = e]
      [] e.type = "ClientError" -> [w EXCEPT !.exc = e]
      [] e.type \in StdExceptionTypes \ {"Skip", "ClientError"} ->
            LET w1 == handle([w EXCEPT !.c = info_kv(@, "reason", CStrValue(e.what))],
                             Exception, NoComment, <<>>, <<>>)
            IN IF w1.exc # NoExc THEN w1 ELSE [w1 EXCEPT !.exc = e]
      [] OTHER ->
            LET w1 == handle(w, Exception, NoComment, <<>>, <<>>)
            IN IF w1.exc # NoExc THEN w1 ELSE [w1 EXCEPT !.exc = e]

Pending == [kind |-> "pending", value |-> EmptyValue, exc |-> NoExc]
Returned(v) == [kind |-> "value", value |-> v, exc |-> NoExc]
Raised(e) == [kind |-> "raised", value |-> EmptyValue, exc |-> e]

\* run_test with a single catch (...) {return {};}.
run_test_absorb_all(r) ==
    IF r.kind = "value" THEN Returned(r.value) ELSE Returned(EmptyValue)

\* run_test with no catch clause at all.
run_test_rethrow_all(r) ==
    IF r.kind = "value" THEN Returned(r.value) ELSE Raised(r.exc)

\* run_test: try {return test.function(ctx, pack);}
\*           catch (ClientError const &e) {throw e;} catch (...) {return {};}
run_test(r) ==
    IF r.kind = "value" THEN Returned(r.value)
    ELSE IF r.exc.type = "ClientError" THEN Raised(r.exc)
    ELSE Returned(EmptyValue)

(***************************************************************************)
(* The inputs.                                                             *)
(***************************************************************************)
SeqUpTo(S, n) == UNION {[1..k -> S] : k \in 0..n}

ParamTypes == {"int", "std::string"}
ArgValues == {EmptyValue, IntegerValue(1), StringValue(<<P("a")>>)}
Signatures == SeqUpTo(ParamTypes, MaxArity)
ArgPacks == SeqUpTo(ArgValues, MaxArity + 1)

HandlerVector(n, R) == [i \in 1..n |-> (i - 1) \in R]

\* The Handler vectors a driver passes: none; one per event kind; the
\* command line's default (no Success, no Traceback slot); only Success and
\* Traceback; all but Traceback.
HandlerChoices ==
    { <<>>,
      HandlerVector(Cardinality(Events), Events),
      HandlerVector(Cardinality(Events) - 1, {Failure, Exception, Timing, Skipped}),
      HandlerVector(Cardinality(Events), {Success, Traceback}),
      HandlerVector(Cardinality(Events), {Failure, Success, Exception, Skipped}) }

Zeros(n) == [i \in 1..n |-> 0]

\* No counter array, one that covers only Failure and Success, one that
\* covers every event kind.
CounterChoices ==
    { [attached |-> FALSE, vec |-> <<>>],
      [attached |-> TRUE, vec |-> Zeros(Success + 1)],
      [attached |-> TRUE, vec |-> Zeros(Cardinality(Events))] }

ReturnValues == {EmptyValue, IntegerValue(5)}

BodyExceptions ==
    { Skip(<<P("this test is skipped"), NP(10)>>),
      Exc("std::runtime_error", <<P("runtime_error: uh oh")>>),
      Exc("other", <<>>),
      ClientError }

\* require(ok) and require(ok, "should be true" at Test.cc:323, {{"huh", n}})
RequireForms(n) ==
    { [comment |-> NoComment, keypairs |-> <<>>],
      [comment |-> Comment(<<P("should be true")>>, <<P("Test.cc")>>, 323),
       keypairs |-> <<KeyValue("huh", IntegerValue(n))>>] }

(***************************************************************************)
(* The global suite: a std::vector<TestCase> behind a                      *)
(* std::shared_timed_mutex, reached only through write_suite and           *)
(* read_suite.                                                             *)
(***************************************************************************)
\* The number of threads that use the suite.
MaxThreads == 2

Threads == 1..MaxThreads

\* TestCase(name, ValueAdapter{v}): a stored value.  id tells registrations
\* apart.
ValueCase(name, v, id) ==
    [name |-> name, kind |-> "value", value |-> v, body |-> "none", id |-> id,
     parameters |-> <<>>]

\* TestCase(name, f): a test.  A "plain" body leaves the suite alone, a
\* "script" body works on the suite while it runs, an "add_get" body is
\* the one of the test "add-get-value"; "unset" is a TestCase whose
\* std::function is empty.  No parameter sets are registered with it.
TestCase(name, body, id) ==
    [name |-> name, kind |-> "test", value |-> EmptyValue, body |-> body, id |-> id,
     parameters |-> <<>>]

\* unit_test(name, comment, f, {pack, ...}): a test registered with
\* parameter sets.
Parametrized(c, ps) == [c EXCEPT !.parameters = ps]

\* The slot emplace_back has made room for and not yet constructed.
PartialSlot ==
    [name |-> "", kind |-> "partial", value |-> EmptyValue, body |-> "none", id |-> 0,
     parameters |-> <<>>]

\* The ids of the TestCases registered before the threads start.
StaticId(i) == 100 + i

\* The suites the threads may find: nothing registered yet, or a test and a
\* value both named "dup", two values named "x" and a test "t" whose body
\* works on the suite.
SuiteChoices ==
    { <<>>,
      << TestCase("dup", "plain", StaticId(1)),
         ValueCase("x", IntegerValue(4), StaticId(2)),
         ValueCase("dup", IntegerValue(5), StaticId(3)),
         ValueCase("x", IntegerValue(7), StaticId(4)),
         TestCase("t", "script", StaticId(5)) >> }

\* A call of the suite's interface.
Op(fn, name, v, allow_missing, pack) ==
    [fn |-> fn, name |-> name, value |-> v, allow_missing |-> allow_missing, pack |-> pack,
     index |-> 0, param |-> -1]

\* run(i, ...): the driver runs the TestCase at index i; the parameter
\* argument is None.
RunOp(i) == [Op("run", "", EmptyValue, FALSE, <<>>) EXCEPT !.index = i]

\* run(i, handlers, n, ...): the parameter argument is the integer n.
RunParamOp(i, n) == [RunOp(i) EXCEPT !.param = n]

\* The operations that go through write_suite.
Writers == {"add_test", "add_value", "set_value"}

\* The calls a thread makes on the suite.
SuiteOps ==
    { Op("add_test", "dup", EmptyValue, FALSE, <<>>),
      Op("add_value", "x", IntegerValue(9), FALSE, <<>>),
      Op("set_value", "dup", IntegerValue(8), FALSE, <<>>),
      Op("find", "dup", EmptyValue, FALSE, <<>>),
      Op("call", "dup", EmptyValue, FALSE, <<>>),
      Op("call", "t", EmptyValue, FALSE, <<>>),
      Op("call", "x", EmptyValue, FALSE, <<>>),
      Op("call", "x", EmptyValue, FALSE, <<IntegerValue(1)>>) }
    \cup { Op("get_value", n, EmptyValue, am, <<>>) : n \in {"dup", "x"}, am \in BOOLEAN }

\* The calls the body of a "script" test makes on the suite.
BodyOps ==
    { Op("add_test", "dup", EmptyValue, FALSE, <<>>),
      Op("add_value", "x", IntegerValue(9), FALSE, <<>>),
      Op("set_value", "dup", IntegerValue(8), FALSE, <<>>),
      Op("call", "x", EmptyValue, FALSE, <<>>) }

\* write_suite without LILWIL_NO_MUTEX taking the lock read_suite takes.
write_suite_shared == "shared_lock"

\* write_suite under LILWIL_NO_MUTEX: no lock at all.
write_suite_no_mutex == "none"

\* write_suite: std::unique_lock<std::shared_timed_mutex> lock(p.second)
write_suite == "unique_lock"

\* read_suite: std::shared_lock<std::shared_timed_mutex> lock(p.second)
read_suite == "shared_lock"

\* The lock an operation's functor runs under.
LockOf(op) == IF op.fn \in Writers THEN write_suite ELSE read_suite

\* std::shared_timed_mutex with no owner.
FreeMutex == [writer |-> 0, shared |-> [t \in Threads |-> 0]]

\* The suite a driver runs by index: a test "u" whose function is unset, a
\* test "t" registered with one parameter set whose body works on the
\* suite, and the test "add-get-value".
DriverSuite ==
    << TestCase("u", "unset", StaticId(1)),
       Parametrized(TestCase("t", "script", StaticId(2)), << <<IntegerValue(1)>> >>),
       TestCase("add-get-value", "add_get", StaticId(3)) >>

\* The calls a driver and the code it runs make on that suite.
DriverOps ==
    { RunOp(i) : i \in 0..Len(DriverSuite) }
    \cup { RunParamOp(1, n) : n \in 0..1 }
    \cup { Op("call", "u", EmptyValue, FALSE, <<>>) }

\* The calls made on a suite.
CallsOn(cs) == IF cs = DriverSuite THEN DriverOps ELSE SuiteOps

\* The call the body of "t" makes when a driver runs it by index.
DriverBodyOps == { Op("set_value", "x", IntegerValue(8), FALSE, <<>>) }

\* The calls the body of a "script" test makes on a suite.
BodyCallsOn(cs) == IF cs = DriverSuite THEN DriverBodyOps ELSE BodyOps

\* Whether a thread that asks for the exclusive lock holds back the threads
\* that ask for a shared lock afterwards: the standard leaves it open, and
\* the implementations differ.
Policies == {"prefer_reader", "prefer_writer"}

\* std::find_if that keeps the last match.
RECURSIVE find_if_last(_, _)
find_if_last(cs, name) ==
    IF cs = <<>> THEN 1
    ELSE IF cs[Len(cs)].name = name THEN Len(cs)
    ELSE LET i == find_if_last(SubSeq(cs, 1, Len(cs) - 1), name)
         IN IF i = Len(cs) THEN Len(cs) + 1 ELSE i

\* The scan from position i on.
RECURSIVE find_if_from(_, _, _)
find_if_from(cs, name, i) ==
    IF i > Len(cs) THEN i
    ELSE IF cs[i].name = name THEN i
    ELSE find_if_from(cs, name, i + 1)

\* std::find_if(cases.begin(), cases.end(), [](c) {return c.name == s;}):
\* the position of the first match, or Len(cs) + 1 for cases.end().
find_if(cs, name) == find_if_from(cs, name, 1)

\* std::remove_if that gives up after the first match.
remove_if_first(cs, name) ==
    LET i == find_if_from(cs, name, 1)
    IN SubSeq(cs, 1, i - 1) \o SubSeq(cs, i + 1, Len(cs))

\* std::remove_if(cases.begin(), cases.end(), [](c) {return c.name == name;})
\* followed by cases.erase(it, cases.end()): what is left, in order.
remove_if(cs, name) == SelectSeq(cs, LAMBDA c : c.name # name)

\* How a call of the suite's interface ended.
NoResult ==
    [kind |-> "none", index |-> 0, value |-> EmptyValue, erased |-> FALSE, exc |-> NoExc]
IndexResult(i) == [NoResult EXCEPT !.kind = "index", !.index = i]
ValueResult(v) == [NoResult EXCEPT !.kind = "value", !.value = v]
BoolResult(b) == [NoResult EXCEPT !.kind = "bool", !.erased = b]
VoidResult == [NoResult EXCEPT !.kind = "void"]
RaisedResult(e) == [NoResult EXCEPT !.kind = "raised", !.exc = e]

\* std::out_of_range("Test case \"" + s + "\" not found")
not_found(s) == Exc("std::out_of_range", <<P("Test case \"" \o s \o "\" not found")>>)

\* What calling an empty std::function raises.
bad_function_call == Exc("std::bad_function_call", <<P("bad_function_call")>>)

\* std::runtime_error("Test case has empty std::function")
empty_function ==
    Exc("std::runtime_error", <<P("Test case has empty std::function")>>)

\* PyErr_SetString(PyExc_IndexError, "Unit test index out of range")
IndexError == Exc("IndexError", <<P("Unit test index out of range")>>)

\* std::out_of_range("Test case \"" + s + "\" is not a simple value")
not_a_simple_value(s) ==
    Exc("std::out_of_range", <<P("Test case \"" \o s \o "\" is not a simple value")>>)

\* PyErr_SetString(PyExc_KeyError, "Test name not found")
KeyError == Exc("KeyError", <<P("Test name not found")>>)

\* lilwil_find_test: the 0-based index of the first TestCase of that name.
find_test(cs, name) ==
    LET i == find_if(cs, name)
    IN IF i > Len(cs) THEN RaisedResult(KeyError) ELSE IndexResult(i - 1)

\* get_value that tells a test from a missing name by nothing.
get_value_one_error(cs, s, allow_missing) ==
    LET i == find_if(cs, s)
    IN IF i <= Len(cs) /\ cs[i].kind = "value" THEN ValueResult(cs[i].value)
       ELSE IF allow_missing THEN ValueResult(EmptyValue)
       ELSE RaisedResult(not_found(s))

\* get_value(s, allow_missing) inside read_suite.
get_value(cs, s, allow_missing) ==
    LET i == find_if(cs, s)
    IN IF i > Len(cs)
       THEN IF allow_missing THEN ValueResult(EmptyValue) ELSE RaisedResult(not_found(s))
       ELSE IF cs[i].kind = "value" THEN ValueResult(cs[i].value)
       ELSE IF allow_missing THEN ValueResult(EmptyValue)
       ELSE RaisedResult(not_a_simple_value(s))

\* A ValueAdapter that hands back its first argument when it gets one.
ValueAdapter_echo(c, pack) == IF pack = <<>> THEN c.value ELSE pack[1]

\* ValueAdapter::operator()(Context &, ArgPack const &): the stored value.
ValueAdapter(c, pack) == c.value

\* One call in progress on a thread: the operation, where it stands, the
\* lock it asked for, the id of what it registers, the slot it fills and
\* whether it erased anything.
Frame(op, id) ==
    [op |-> op, pc |-> "waiting", lock |-> LockOf(op), id |-> id, n |-> 0, erased |-> FALSE,
     test |-> PartialSlot, got |-> NoResult]

\* No call.
NoOp == Op("none", "", EmptyValue, FALSE, <<>>)

\* A thread that has not called the suite yet.  Once its call has ended, op
\* is the call, result how it ended, seen the suite its functor worked on
\* and version the number of structural changes made up to then.
IdleThread ==
    [stack |-> <<>>, op |-> NoOp, result |-> NoResult, seen |-> <<>>, version |-> 0]

(***************************************************************************)
(* Values held by client code: view_as<T> and target<T>.                   *)
(***************************************************************************)
\* The Values client code holds: empty, or constructed from a bool, an
\* unsigned char, an int, an Integer, a Real or a string of some kind.
StoredValues ==
    { EmptyValue, BoolValue(FALSE), BoolValue(TRUE), UCharValue(44), IntValue(0),
      IntValue(7), IntegerValue(0), IntegerValue(1), IntegerValue(-1), IntegerValue(300),
      RealValue(2), StringValue(<<P("a")>>), StringViewValue(<<P("a")>>),
      CStrValue(<<P("a")>>) }

\* The types client code asks for.
ViewTypes ==
    { "bool", "unsigned char", "int", "Integer", "Real", "std::string",
      "std::string_view", "std::type_index" }

(***************************************************************************)
(* The assertions and timings a body makes.                                *)
(***************************************************************************)
\* The number of assertion or timing calls of one body.
MaxAsserts == 1

Comparators == {"equal", "not_equal", "less", "greater", "less_eq", "greater_eq"}
Operands == {5, 6}

\* The three arguments of a within call.
WithinArgs == {1, 5, 7}

\* The exception types throw_as is asked for.
ExceptionTypes == {"std::runtime_error", "std::exception", "Skip", "ClientError"}

\* The functors: one that returns void, one that returns 5, one that
\* raises at once, one that raises when invoked a second time.
Functors ==
    { Functor(0, NoExc, EmptyValue), Functor(0, NoExc, IntegerValue(5)) }
    \cup { Functor(1, e, EmptyValue) : e \in BodyExceptions }
    \cup { Functor(2, Exc("std::runtime_error", <<P("runtime_error: uh oh")>>), EmptyValue) }

Repeats == {0, 1, 2}

\* What the clock may measure, in units that 1 and 2 divide.
Elapsed == {0, 6}

\* The comparators handed to all(), and the vectors it compares.
FunctionObjects ==
    {"std::equal_to", "std::not_equal_to", "std::less", "std::greater", "std::less_equal",
     "std::greater_equal", "lambda"}
Vectors == {<<1, 2, 3>>, <<1, 4, 3>>}

\* No assertion or timing call made yet.
NoAssert ==
    [op |-> "none", l |-> 0, r |-> 0, tol |-> 0, E |-> "", n |-> 0, elapsed |-> 0,
     f |-> Functor(0, NoExc, EmptyValue), invoked |-> 0, ret |-> Pending,
     compare |-> "", ls |-> <<>>, rs |-> <<>>]

AssertIdle == asserted = NoAssert

\* No view_as or target call made yet.
NoView == [op |-> "none", T |-> "", r |-> NoTarget]

ValueIdle == stored = EmptyValue /\ viewed = NoView

\* The number of handle() calls the threads make on their Context copies,
\* all threads together.
MaxEvents == 3

\* The event kinds the threads dispatch.
WorkerEvents == {Success, Exception}

\* A thread that holds a copy of the driver's Context and has dispatched
\* nothing yet: made[e] counts its handle(e) calls that have returned,
\* loaded is what the counter of event read when the call was entered.
NoWorker ==
    [pc |-> "ready", event |-> Failure, loaded |-> 0, made |-> [e \in WorkerEvents |-> 0]]

WorkersIdle == workers = [t \in Threads |-> NoWorker]

\* The state of the features that have no part in an invocation.
InitAux == ValueIdle /\ AssertIdle /\ WorkersIdle

(***************************************************************************)
(* Init: run_test has zeroed the counters and built the Context            *)
(* ctx({test.name}, handlers, &counts); it is about to call the adapter.   *)
(***************************************************************************)
InitCommon ==
    /\ handlers \in HandlerChoices
    /\ counters \in CounterChoices
    /\ ctx = [id \in {"ct", "body"} |-> NewContext(<<"test">>)]
    /\ calls = <<>>
    /\ trace = <<>>
    /\ pc = "call"
    /\ steps = 0
    /\ exc = NoExc
    /\ origin = "none"
    /\ result = Pending
    /\ driver = Pending
    /\ entry = [kind |-> "none", sig |-> <<>>, args |-> <<>>]
    /\ nTrue = 0
    /\ nFalse = 0
    /\ captured = <<>>
    /\ pending = <<>>
    /\ lastHandle = "none"
    /\ ceRaised = FALSE
    /\ ceSwallowed = FALSE
    /\ counted = NoCount
    /\ sections = <<>>
    /\ names = <<>>
    /\ secResult = Pending
    /\ cases = <<>>
    /\ mutex = FreeMutex
    /\ policy = "prefer_reader"
    /\ threads = [t \in Threads |-> IdleThread]
    /\ version = 0
    /\ registered = {}
    /\ erasures = 0
    /\ initial = <<>>
    /\ InitAux

\* Handlers that return normally.
Init == InitCommon /\ throwing = {}

\* One registered Handler raises a ClientError whenever it is called.
InitThrow == InitCommon /\ \E e \in Events : Registered(e) /\ throwing = {e}

(***************************************************************************)
(* The actions.                                                            *)
(***************************************************************************)
\* What a call on Context id leaves behind.
Commit(w) ==
    /\ ctx' = [ctx EXCEPT ![w.id] = w.c]
    /\ counters' = w.counters
    /\ calls' = w.calls
    /\ trace' = w.trace

\* TestAdapter::operator(): the arity check and the conversions, up to the
\* call of the body, which receives the Context by value.
TestAdapter_enter ==
    /\ pc = "call"
    /\ \E sig \in Signatures, args \in ArgPacks, first \in 1..MaxArity :
          LET e == TestAdapter_try(sig, args, first)
              converts == Len(args) = Len(sig) /\ Failing(sig, args) # {}
          IN /\ IF converts THEN first \in Failing(sig, args) ELSE first = 1
             /\ IF e = NoExc
                THEN /\ pc' = "body"
                     /\ ctx' = [ctx EXCEPT !["body"] = ctx["ct"]]
                     /\ entry' = [kind |-> "invoked", sig |-> <<>>, args |-> <<>>]
                     /\ origin' = "none"
                ELSE /\ pc' = "catch"
                     /\ ctx' = ctx
                     /\ entry' = [kind |-> IF converts THEN "conversion" ELSE "arity",
                                  sig |-> sig, args |-> args]
                     /\ origin' = IF converts THEN "conversion" ELSE "arity"
             /\ exc' = e
    /\ UNCHANGED <<featureVars, handlers, throwing, counters, calls, trace, steps, result, driver,
                   nTrue, nFalse, captured, pending, lastHandle, ceRaised, ceSwallowed>>

\* The body logs a message: ct.info(...) or ct(...).
BodyInfo ==
    /\ pc = "body" /\ steps < MaxOps
    /\ LET t == CStrValue(<<P("message "), NP(steps + 1)>>)
       IN /\ ctx' = [ctx EXCEPT !["body"] = info(@, t)]
          /\ pending' = Append(pending, KeyValue("", t))
    /\ steps' = steps + 1
    /\ lastHandle' = "none"
    /\ UNCHANGED <<featureVars, handlers, throwing, counters, calls, trace, pc, exc, origin, result,
                   driver, entry, nTrue, nFalse, captured, ceRaised, ceSwallowed>>

\* The body captures two values: ct.capture(glue("i", n), glue("j", n)).
BodyCapture ==
    /\ pc = "body" /\ steps < MaxOps
    /\ LET ts == <<Glue("i", IntegerValue(steps + 1)), Glue("j", IntegerValue(steps + 1))>>
       IN /\ ctx' = [ctx EXCEPT !["body"] = capture(@, ts)]
          /\ captured' = captured \o
                 [i \in 1..Len(ts) |-> KeyValue(ts[i].key, ts[i].value)]
    /\ steps' = steps + 1
    /\ lastHandle' = "none"
    /\ UNCHANGED <<featureVars, handlers, throwing, counters, calls, trace, pc, exc, origin, result,
                   driver, entry, nTrue, nFalse, pending, ceRaised, ceSwallowed>>

\* The body asserts: ct.require(ok, ...).  A Handler that raises ends the body.
BodyRequire ==
    /\ pc = "body" /\ steps < MaxOps
    /\ \E ok \in BOOLEAN, form \in RequireForms(steps + 1) :
          LET w == require(World("body"), ok, form.comment, form.keypairs)
          IN /\ Commit(w)
             /\ nTrue' = IF ok THEN nTrue + 1 ELSE nTrue
             /\ nFalse' = IF ok THEN nFalse ELSE nFalse + 1
             /\ IF w.exc = NoExc
                THEN /\ pending' = <<>>
                     /\ lastHandle' = "body"
                     /\ UNCHANGED <<pc, exc, origin, ceRaised>>
                ELSE /\ pc' = "unwind"
                     /\ exc' = w.exc
                     /\ origin' = "handler"
                     /\ ceRaised' = TRUE
                     /\ lastHandle' = "none"
                     /\ UNCHANGED pending
    /\ steps' = steps + 1
    /\ UNCHANGED <<featureVars, handlers, throwing, result, driver, entry, captured, ceSwallowed>>

\* The body returns; its Context is destroyed with no exception in flight.
BodyReturn ==
    /\ pc = "body"
    /\ \E v \in ReturnValues : result' = Returned(v)
    /\ pc' = "driver"
    /\ lastHandle' = "none"
    /\ Commit(Context_dtor(World("body"), 0))
    /\ UNCHANGED <<featureVars, handlers, throwing, steps, exc, origin, driver, entry, nTrue, nFalse,
                   captured, pending, ceRaised, ceSwallowed>>

\* The body raises.
BodyThrow ==
    /\ pc = "body"
    /\ \E e \in BodyExceptions :
          /\ exc' = e
          /\ ceRaised' = (e.type = "ClientError")
    /\ origin' = "body"
    /\ pc' = "unwind"
    /\ lastHandle' = "none"
    /\ UNCHANGED <<featureVars, handlers, throwing, counters, ctx, calls, trace, steps, result, driver,
                   entry, nTrue, nFalse, captured, pending, ceSwallowed>>

\* The stack unwinds through the body's Context: ~Context dispatches
\* Traceback and swallows what the Handler raises.
ContextDtor ==
    /\ pc = "unwind"
    /\ LET h == handle(World("body"), Traceback, NoComment, <<>>, <<>>)
       IN /\ Commit(Context_dtor(World("body"), 1))
          /\ ceSwallowed' = (ceSwallowed \/ h.exc.type = "ClientError")
          /\ lastHandle' = IF h.exc = NoExc THEN "body" ELSE "none"
    /\ pc' = "catch"
    /\ UNCHANGED <<featureVars, handlers, throwing, steps, exc, origin, result, driver, entry, nTrue,
                   nFalse, captured, pending, ceRaised>>

\* The adapter's catch clause for the exception in flight; it ends by
\* re-raising, unless a Handler it calls raises first.
TestAdapter_rethrow ==
    /\ pc = "catch"
    /\ LET w == TestAdapter_catch(World("ct"), exc)
       IN /\ Commit(w)
          /\ result' = Raised(w.exc)
          /\ ceRaised' = (ceRaised \/ w.exc.type = "ClientError")
          /\ lastHandle' = IF exc.type # "ClientError" /\ w.exc = exc THEN "ct" ELSE "none"
    /\ pc' = "driver"
    /\ UNCHANGED <<featureVars, handlers, throwing, steps, exc, origin, driver, entry, nTrue, nFalse,
                   captured, pending, ceSwallowed>>

\* run_test receives the adapter's outcome.  A ClientError leaves run_test,
\* so the driver's Context is destroyed while it unwinds.
RunTest ==
    /\ pc = "driver"
    /\ driver' = run_test(result)
    /\ LET unwinding == run_test(result).kind = "raised"
           h == handle(World("ct"), Traceback, NoComment, <<>>, <<>>)
       IN /\ Commit(Context_dtor(World("ct"), IF unwinding THEN 1 ELSE 0))
          /\ ceSwallowed' = (ceSwallowed \/ (unwinding /\ h.exc.type = "ClientError"))
          /\ lastHandle' = IF unwinding /\ h.exc = NoExc THEN "ct" ELSE "none"
    /\ pc' = "done"
    /\ UNCHANGED <<featureVars, handlers, throwing, steps, exc, origin, result, entry, nTrue, nFalse,
                   captured, pending, ceRaised>>

Next ==
    \/ TestAdapter_enter
    \/ BodyInfo
    \/ BodyCapture
    \/ BodyRequire
    \/ BodyReturn
    \/ BodyThrow
    \/ ContextDtor
    \/ TestAdapter_rethrow
    \/ RunTest

Spec == Init /\ [][Next]_vars

SpecThrow == InitThrow /\ [][Next]_vars

(***************************************************************************)
(* A body that asserts relations, tolerances and exceptions and times      *)
(* functors.                                                               *)
(***************************************************************************)
\* The driver registers no Handler, one per event kind, or the command
\* line's default, and attaches a counter per event kind.
InitAssert ==
    /\ InitCommon
    /\ throwing = {}
    /\ handlers \in { <<>>, HandlerVector(Cardinality(Events), Events),
                      HandlerVector(Cardinality(Events) - 1,
                                    {Failure, Exception, Timing, Skipped}) }
    /\ counters = [attached |-> TRUE, vec |-> Zeros(Cardinality(Events))]

\* What the call o on the body's Context leaves behind: it returned, or an
\* exception leaves it and ends the body.
AssertStep(call, o) ==
    /\ Commit(o.w)
    /\ asserted' = [call EXCEPT !.invoked = o.invoked,
                                !.ret = IF o.w.exc = NoExc THEN Returned(o.value)
                                        ELSE Raised(o.w.exc)]
    /\ steps' = steps + 1
    /\ IF o.w.exc = NoExc
       THEN /\ pending' = <<>>
            /\ lastHandle' = "body"
            /\ UNCHANGED <<pc, exc, origin, ceRaised>>
       ELSE /\ pc' = "unwind"
            /\ exc' = o.w.exc
            /\ origin' = IF Len(o.w.calls) > Len(calls)
                            /\ o.w.calls[Len(o.w.calls)].event \in throwing
                         THEN "handler" ELSE "body"
            /\ ceRaised' = (ceRaised \/ o.w.exc.type = "ClientError")
            /\ lastHandle' = "none"
            /\ UNCHANGED pending
    /\ UNCHANGED <<countVars, sectionVars, registryVars, valueVars, workerVars, handlers,
                   throwing, result, driver, entry, nTrue, nFalse, captured, ceSwallowed>>

\* The body compares: ct.equal(l, r), ct.not_equal(l, r), ...
BodyCompare ==
    /\ pc = "body" /\ steps < MaxAsserts
    /\ \E op \in Comparators, l \in Operands, r \in Operands :
          LET w == World("body")
          IN AssertStep([NoAssert EXCEPT !.op = op, !.l = l, !.r = r],
                 CASE op = "equal" -> equal(w, l, r, NoComment, <<>>)
                   [] op = "not_equal" -> not_equal(w, l, r, NoComment, <<>>)
                   [] op = "less" -> less(w, l, r, NoComment, <<>>)
                   [] op = "greater" -> greater(w, l, r, NoComment, <<>>)
                   [] op = "less_eq" -> less_eq(w, l, r, NoComment, <<>>)
                   [] op = "greater_eq" -> greater_eq(w, l, r, NoComment, <<>>))

\* The body calls ct.within(tolerance, l, r), as the tests and the manual
\* write it; the three arguments go to the parameters in their order.
BodyWithin ==
    /\ pc = "body" /\ steps < MaxAsserts
    /\ \E tolerance \in WithinArgs, l \in WithinArgs, r \in WithinArgs :
       \E stale \in (IF tolerance = l THEN StrayValues ELSE {0}) :
          AssertStep([NoAssert EXCEPT !.op = "within", !.tol = tolerance, !.l = l, !.r = r],
                     within(World("body"), tolerance, l, r, NoComment, <<>>, stale))

\* The body calls ct.throw_as<E>(f).
BodyThrowAs ==
    /\ pc = "body" /\ steps < MaxAsserts
    /\ \E E \in ExceptionTypes, f \in Functors :
          AssertStep([NoAssert EXCEPT !.op = "throw_as", !.E = E, !.f = f],
                     throw_as(World("body"), E, f, NoComment, <<>>))

\* The body calls ct.no_throw(f).
BodyNoThrow ==
    /\ pc = "body" /\ steps < MaxAsserts
    /\ \E f \in Functors :
          AssertStep([NoAssert EXCEPT !.op = "no_throw", !.f = f],
                     no_throw(World("body"), f, NoComment, <<>>))

\* The body calls ct.timed(f).
BodyTimed ==
    /\ pc = "body" /\ steps < MaxAsserts
    /\ \E f \in Functors, elapsed \in Elapsed :
          AssertStep([NoAssert EXCEPT !.op = "timed", !.f = f, !.elapsed = elapsed],
                     timed(World("body"), f, elapsed, NoComment, <<>>))

\* The body calls ct.timing(n, f).
BodyTiming ==
    /\ pc = "body" /\ steps < MaxAsserts
    /\ \E n \in Repeats, f \in Functors, elapsed \in Elapsed :
          AssertStep([NoAssert EXCEPT !.op = "timing", !.n = n, !.f = f,
                                      !.elapsed = elapsed],
                     timing(World("body"), n, f, elapsed, NoComment, <<>>))

\* The body calls ct.all(compare, l, r).
BodyAll ==
    /\ pc = "body" /\ steps < MaxAsserts
    /\ \E T \in FunctionObjects, l \in Vectors, r \in Vectors :
          AssertStep([NoAssert EXCEPT !.op = "all", !.compare = T, !.ls = l, !.rs = r],
                     all(World("body"), T, l, r, NoComment, <<>>))

NextAssert ==
    \/ TestAdapter_enter
    \/ BodyCompare
    \/ BodyAll
    \/ BodyWithin
    \/ BodyThrowAs
    \/ BodyNoThrow
    \/ BodyTimed
    \/ BodyTiming
    \/ BodyReturn
    \/ ContextDtor
    \/ TestAdapter_rethrow
    \/ RunTest

SpecAssert == InitAssert /\ [][NextAssert]_vars

\* The same bodies with a Handler per event kind, of which the one of
\* Success or the one of Failure raises a ClientError.
InitAssertThrow ==
    /\ InitCommon
    /\ handlers = HandlerVector(Cardinality(Events), Events)
    /\ \E e \in {Failure, Success} : throwing = {e}
    /\ counters = [attached |-> TRUE, vec |-> Zeros(Cardinality(Events))]

SpecAssertThrow == InitAssertThrow /\ [][NextAssert]_vars

(***************************************************************************)
(* A body that also queries the counters: ct.count(e).                     *)
(***************************************************************************)
\* The body calls ct.count(e); a fault ends the process.
BodyCount ==
    /\ pc = "body"
    /\ \E e \in Events : \E o \in count_outcomes(e) :
          /\ counted' = o
          /\ pc' = IF o.outcome = "fault" THEN "fault" ELSE "counted"
    /\ UNCHANGED <<coreButPc, sectionVars, registryVars, auxVars>>

\* The body goes on with the value count(e) returned.
BodyCounted ==
    /\ pc = "counted"
    /\ pc' = "body"
    /\ counted' = NoCount
    /\ UNCHANGED <<coreButPc, sectionVars, registryVars, auxVars>>

NextCount ==
    \/ Next
    \/ BodyCount
    \/ BodyCounted

SpecCount == Init /\ [][NextCount]_vars

(***************************************************************************)
(* A body that opens sections: ct.section(name, f).  While f runs it works *)
(* on the child Context; the enclosing Contexts stay in reach.  The body   *)
(* and the functors return normally here.                                  *)
(***************************************************************************)
SectionNames == {"a", "b"}

\* The Context section() is called on: the innermost one.
Innermost == IF sections = <<>> THEN ctx["body"] ELSE sections[Len(sections)]

SectionWorld ==
    [id |-> "section", c |-> Innermost, counters |-> counters, calls |-> calls,
     trace |-> trace, exc |-> NoExc]

\* section(name, f) is called on the innermost Context and calls f.
SectionEnter ==
    /\ pc = "body" /\ steps < MaxOps
    /\ Len(sections) < MaxDepth
    /\ \E name \in SectionNames :
          /\ sections' = Append(sections, section(Innermost, name))
          /\ names' = Append(names, name)
    /\ steps' = steps + 1
    /\ lastHandle' = "none"
    /\ UNCHANGED <<handlers, throwing, counters, ctx, calls, trace, pc, exc, origin,
                   result, driver, entry, nTrue, nFalse, captured, pending, ceRaised,
                   ceSwallowed, countVars, registryVars, auxVars, secResult>>

\* f logs a message on its Context.
SectionInfo ==
    /\ pc = "body" /\ steps < MaxOps
    /\ sections # <<>>
    /\ sections' = [sections EXCEPT ![Len(sections)] =
                       info(@, CStrValue(<<P("in section "), NP(steps + 1)>>))]
    /\ steps' = steps + 1
    /\ lastHandle' = "none"
    /\ UNCHANGED <<handlers, throwing, counters, ctx, calls, trace, pc, exc, origin,
                   result, driver, entry, nTrue, nFalse, captured, pending, ceRaised,
                   ceSwallowed, countVars, registryVars, auxVars, names, secResult>>

\* f captures a value on its Context.
SectionCapture ==
    /\ pc = "body" /\ steps < MaxOps
    /\ sections # <<>>
    /\ sections' = [sections EXCEPT ![Len(sections)] =
                       capture(@, <<Glue("k", IntegerValue(steps + 1))>>)]
    /\ steps' = steps + 1
    /\ lastHandle' = "none"
    /\ UNCHANGED <<handlers, throwing, counters, ctx, calls, trace, pc, exc, origin,
                   result, driver, entry, nTrue, nFalse, captured, pending, ceRaised,
                   ceSwallowed, countVars, registryVars, auxVars, names, secResult>>

\* f asserts on its Context; the Handlers return normally here.
SectionRequire ==
    /\ pc = "body" /\ steps < MaxOps
    /\ sections # <<>>
    /\ \E ok \in BOOLEAN :
          LET w == require(SectionWorld, ok, NoComment, <<>>)
          IN /\ w.exc = NoExc
             /\ sections' = [sections EXCEPT ![Len(sections)] = w.c]
             /\ counters' = w.counters
             /\ calls' = w.calls
             /\ trace' = w.trace
    /\ steps' = steps + 1
    /\ lastHandle' = "none"
    /\ UNCHANGED <<handlers, throwing, ctx, pc, exc, origin, result, driver, entry,
                   nTrue, nFalse, captured, pending, ceRaised, ceSwallowed, countVars, registryVars,
                   auxVars,
                   names, secResult>>

\* f returns; section() returns what f returned and the child is destroyed
\* with no exception in flight.
SectionReturn ==
    /\ pc = "body"
    /\ sections # <<>>
    /\ \E v \in ReturnValues : secResult' = Returned(v)
    /\ sections' = SubSeq(sections, 1, Len(sections) - 1)
    /\ names' = SubSeq(names, 1, Len(names) - 1)
    /\ lastHandle' = "none"
    /\ UNCHANGED <<handlers, throwing, counters, ctx, calls, trace, pc, steps, exc,
                   origin, result, driver, entry, nTrue, nFalse, captured, pending,
                   ceRaised, ceSwallowed, countVars, registryVars, auxVars>>

NextSection ==
    \/ TestAdapter_enter
    \/ BodyInfo
    \/ BodyCapture
    \/ BodyRequire
    \/ SectionEnter
    \/ SectionInfo
    \/ SectionCapture
    \/ SectionRequire
    \/ SectionReturn
    \/ (sections = <<>> /\ BodyReturn)
    \/ TestAdapter_rethrow
    \/ RunTest

SpecSection == Init /\ [][NextSection]_vars

(***************************************************************************)
(* Client code that holds a Value and views it.                            *)
(***************************************************************************)
InitValue ==
    /\ InitCommon
    /\ handlers = <<>>
    /\ ~counters.attached
    /\ throwing = {}

\* Value(x): another Value is constructed.
ValueConstruct ==
    /\ stored' \in StoredValues
    /\ viewed' = NoView
    /\ UNCHANGED <<coreVars, countVars, sectionVars, registryVars, assertVars, workerVars>>

\* stored.view_as<T>()
ValueViewAs ==
    /\ \E T \in ViewTypes : viewed' = [op |-> "view_as", T |-> T, r |-> view_as(T, stored)]
    /\ UNCHANGED <<coreVars, countVars, sectionVars, registryVars, assertVars, workerVars,
                   stored>>

\* stored.target<T>()
ValueTarget ==
    /\ \E T \in ViewTypes : viewed' = [op |-> "target", T |-> T, r |-> target(T, stored)]
    /\ UNCHANGED <<coreVars, countVars, sectionVars, registryVars, assertVars, workerVars,
                   stored>>

NextValue ==
    \/ ValueConstruct
    \/ ValueViewAs
    \/ ValueTarget

SpecValue == InitValue /\ [][NextValue]_vars

(***************************************************************************)
(* Threads on the suite.  Each thread makes one call of the suite's        *)
(* interface; the body of a "script" test makes one more while it runs.    *)
(***************************************************************************)
\* Before the threads start: some suite, a free mutex, and a driver's
\* Context with no Handler or one Handler per event kind.
InitSuite(suites) ==
    /\ handlers \in {<<>>, HandlerVector(Cardinality(Events), Events)}
    /\ throwing = {}
    /\ counters = [attached |-> TRUE, vec |-> Zeros(Cardinality(Events))]
    /\ ctx = [id \in {"ct", "body"} |-> NewContext(<<"test">>)]
    /\ calls = <<>>
    /\ trace = <<>>
    /\ pc = "call"
    /\ steps = 0
    /\ exc = NoExc
    /\ origin = "none"
    /\ result = Pending
    /\ driver = Pending
    /\ entry = [kind |-> "none", sig |-> <<>>, args |-> <<>>]
    /\ nTrue = 0
    /\ nFalse = 0
    /\ captured = <<>>
    /\ pending = <<>>
    /\ lastHandle = "none"
    /\ ceRaised = FALSE
    /\ ceSwallowed = FALSE
    /\ counted = NoCount
    /\ sections = <<>>
    /\ names = <<>>
    /\ secResult = Pending
    /\ cases \in suites
    /\ initial = cases
    /\ mutex = FreeMutex
    /\ policy \in Policies
    /\ threads = [t \in Threads |-> IdleThread]
    /\ version = 0
    /\ registered = {}
    /\ erasures = 0
    /\ InitAux

InitRegistry == InitSuite(SuiteChoices)

\* What the registry leaves alone but for the events of call()'s Context.
invocationVars == <<handlers, throwing, ctx, pc, steps, exc, origin, result, driver, entry,
                    nTrue, nFalse, captured, pending, lastHandle, ceRaised, ceSwallowed,
                    countVars, sectionVars, auxVars, policy, initial>>

Depth(t) == Len(threads[t].stack)
Top(t) == threads[t].stack[Depth(t)]
Started(t) == threads[t].stack # <<>> \/ threads[t].result # NoResult
Done(t) == threads[t].stack = <<>> /\ threads[t].result # NoResult

\* The calls in progress whose functor is running.
InFunctor(t) == {i \in 1..Depth(t) : threads[t].stack[i].pc # "waiting"}

\* Some thread has asked for the exclusive lock and waits for it.
WriterWaiting ==
    \E u \in Threads :
        Depth(u) > 0 /\ Top(u).pc = "waiting" /\ Top(u).lock = "unique_lock"

\* shared_timed_mutex::lock() returns: no owner of either kind is left.  A
\* thread that holds a shared lock itself waits for ever.
can_lock == mutex.writer = 0 /\ \A u \in Threads : mutex.shared[u] = 0

\* shared_timed_mutex::lock_shared() returns: no exclusive owner, and no
\* waiting writer where writers come first.
can_lock_shared == mutex.writer = 0 /\ (policy = "prefer_reader" \/ ~WriterWaiting)

\* The lock's constructor returns.
can_acquire(lock) ==
    CASE lock = "unique_lock" -> can_lock
      [] lock = "shared_lock" -> can_lock_shared
      [] OTHER -> TRUE

Acquired(t, lock) ==
    CASE lock = "unique_lock" -> [mutex EXCEPT !.writer = t]
      [] lock = "shared_lock" -> [mutex EXCEPT !.shared[t] = @ + 1]
      [] OTHER -> mutex

\* The lock's destructor.
Released(t, lock) ==
    CASE lock = "unique_lock" -> [mutex EXCEPT !.writer = 0]
      [] lock = "shared_lock" -> [mutex EXCEPT !.shared[t] = @ - 1]
      [] OTHER -> mutex

\* The innermost call of thread t returns r or raises it, having seen or
\* left the suite cs: a call made by a test body hands control back to the
\* body, which ignores how the call ended unless it is the get_value of
\* "add-get-value".
Finish(t, r, cs, ver) ==
    LET rest == SubSeq(threads[t].stack, 1, Depth(t) - 1)
    IN IF rest = <<>>
       THEN [threads EXCEPT ![t] = [stack |-> <<>>, op |-> threads[t].stack[1].op,
                                    result |-> r, seen |-> cs, version |-> ver]]
       ELSE IF rest[Len(rest)].test.body = "add_get" /\ Top(t).op.fn = "get_value"
       THEN [threads EXCEPT ![t].stack =
                [rest EXCEPT ![Len(rest)].pc = "return", ![Len(rest)].got = r]]
       ELSE [threads EXCEPT ![t].stack = [rest EXCEPT ![Len(rest)].pc = "return"]]

\* The Context call() received by value.
CallWorld ==
    [id |-> "call", c |-> ctx["ct"], counters |-> counters, calls |-> calls,
     trace |-> trace, exc |-> NoExc]

\* A thread calls the suite's interface.  Threads are numbered in the order
\* of their calls.
SuiteCall(t) ==
    /\ ~Started(t)
    /\ \A u \in Threads : u < t => Started(u)
    /\ \E op \in CallsOn(initial) :
          threads' = [threads EXCEPT ![t].stack = <<Frame(op, t)>>]
    /\ UNCHANGED <<invocationVars, counters, calls, trace, cases, mutex, version,
                   registered, erasures>>

\* write_suite / read_suite: the lock is taken.
Lock(t) ==
    /\ Depth(t) > 0 /\ Top(t).pc = "waiting"
    /\ can_acquire(Top(t).lock)
    /\ mutex' = Acquired(t, Top(t).lock)
    /\ threads' = [threads EXCEPT ![t].stack[Depth(t)].pc = "in"]
    /\ UNCHANGED <<invocationVars, counters, calls, trace, cases, version, registered,
                   erasures>>

\* cases.emplace_back(...): room for one more TestCase behind the others.
emplace_back(cs) == Append(cs, PartialSlot)

\* The functor of add_test, add_value or set_value: set_value erases the
\* TestCases of that name, then emplace_back makes room for the new one.
Emplace(t) ==
    /\ Depth(t) > 0 /\ Top(t).pc = "in" /\ Top(t).op.fn \in Writers
    /\ LET f == Top(t)
           kept == IF f.op.fn = "set_value" THEN remove_if(cases, f.op.name) ELSE cases
       IN /\ cases' = emplace_back(kept)
          /\ erasures' = erasures + (Len(cases) - Len(kept))
          /\ threads' = [threads EXCEPT ![t].stack[Depth(t)] =
                            [f EXCEPT !.pc = "mid", !.n = Len(kept) + 1,
                                      !.erased = (Len(kept) # Len(cases))]]
    /\ UNCHANGED <<invocationVars, counters, calls, trace, mutex, version, registered>>

\* emplace_back constructs the TestCase; the functor returns, the lock is
\* released.  set_value returns erased.
Construct(t) ==
    /\ Depth(t) > 0 /\ Top(t).pc = "mid"
    /\ LET f == Top(t)
           c == IF f.op.fn = "add_test"
                THEN TestCase(f.op.name, "plain", f.id)
                ELSE ValueCase(f.op.name, f.op.value, f.id)
           cs == [cases EXCEPT ![f.n] = c]
       IN /\ cases' = cs
          /\ version' = version + 1
          /\ registered' = IF f.op.fn = "set_value" THEN registered
                           ELSE registered \cup {f.id}
          /\ mutex' = Released(t, f.lock)
          /\ threads' = Finish(t, IF f.op.fn = "set_value" THEN BoolResult(f.erased)
                                  ELSE VoidResult, cs, version + 1)
    /\ UNCHANGED <<invocationVars, counters, calls, trace, erasures>>

\* The functor of lilwil_find_test or get_value.
Lookup(t) ==
    /\ Depth(t) > 0 /\ Top(t).pc = "in" /\ Top(t).op.fn \in {"find", "get_value"}
    /\ LET f == Top(t)
           r == IF f.op.fn = "find" THEN find_test(cases, f.op.name)
                ELSE get_value(cases, f.op.name, f.op.allow_missing)
       IN /\ mutex' = Released(t, f.lock)
          /\ threads' = Finish(t, r, cases, version)
    /\ UNCHANGED <<invocationVars, counters, calls, trace, cases, version, registered,
                   erasures>>

\* The functor of call(s, c, pack): with no TestCase named s it raises and
\* the Context c is destroyed while the exception unwinds; otherwise it
\* calls the function of the first match, still under the shared lock.
\* Calling an empty function raises as well.
Call(t) ==
    /\ Depth(t) > 0 /\ Top(t).pc = "in" /\ Top(t).op.fn = "call"
    /\ LET f == Top(t)
           i == find_if(cases, f.op.name)
       IN IF i > Len(cases)
          THEN LET w == Context_dtor(CallWorld, 1)
               IN /\ counters' = w.counters
                  /\ calls' = w.calls
                  /\ trace' = w.trace
                  /\ mutex' = Released(t, f.lock)
                  /\ threads' = Finish(t, RaisedResult(not_found(f.op.name)), cases,
                                       version)
          ELSE IF cases[i].kind = "test" /\ cases[i].body = "unset"
          THEN LET w == Context_dtor(CallWorld, 1)
               IN /\ counters' = w.counters
                  /\ calls' = w.calls
                  /\ trace' = w.trace
                  /\ mutex' = Released(t, f.lock)
                  /\ threads' = Finish(t, RaisedResult(bad_function_call), cases, version)
          ELSE IF cases[i].kind = "test" /\ cases[i].body \in {"script", "add_get"}
          THEN /\ threads' = [threads EXCEPT ![t].stack[Depth(t)] =
                                  [f EXCEPT !.pc = "body", !.test = cases[i]]]
               /\ UNCHANGED <<counters, calls, trace, mutex>>
          ELSE /\ mutex' = Released(t, f.lock)
               /\ threads' = Finish(t, ValueResult(IF cases[i].kind = "value"
                                                   THEN ValueAdapter(cases[i], f.op.pack)
                                                   ELSE EmptyValue), cases, version)
               /\ UNCHANGED <<counters, calls, trace>>
    /\ UNCHANGED <<invocationVars, cases, version, registered, erasures>>

\* run_test that lets a TestCase with an empty function pass for a run
\* with an empty result.
run_test_unchecked(t) ==
    [raised |-> FALSE, exc |-> NoExc, value |-> t.value]

\* run_test on a TestCase copy: an empty function raises ahead of the try
\* block; a stored value is returned; a plain body returns nothing.
run_test_case(t) ==
    IF t.kind = "test" /\ t.body = "unset"
    THEN [raised |-> TRUE, exc |-> empty_function, value |-> EmptyValue]
    ELSE [raised |-> FALSE, exc |-> NoExc, value |-> t.value]

\* The Context run_test builds for the TestCase.
RunWorld ==
    [id |-> "run", c |-> ctx["ct"], counters |-> counters, calls |-> calls,
     trace |-> trace, exc |-> NoExc]

\* get_test(i) whose shared lock lives on until run(i, ...) returns.
GetTest_holding_lock(t) ==
    /\ Depth(t) > 0 /\ Top(t).pc = "in" /\ Top(t).op.fn = "run"
    /\ LET f == Top(t)
       IN IF f.op.index < Len(cases)
          THEN /\ mutex' = mutex
               /\ threads' = [threads EXCEPT ![t].stack[Depth(t)] =
                                 [f EXCEPT !.pc = "pack", !.test = cases[f.op.index + 1]]]
          ELSE /\ mutex' = Released(t, f.lock)
               /\ threads' = Finish(t, RaisedResult(IndexError), cases, version)
    /\ UNCHANGED <<invocationVars, counters, calls, trace, cases, version, registered,
                   erasures>>

\* get_test(i): the functor copies the TestCase at index i out of the
\* suite, or sets IndexError; the lock is released before anything runs.
GetTest(t) ==
    /\ Depth(t) > 0 /\ Top(t).pc = "in" /\ Top(t).op.fn = "run"
    /\ LET f == Top(t)
       IN /\ mutex' = Released(t, f.lock)
          /\ threads' = IF f.op.index < Len(cases)
                         THEN [threads EXCEPT ![t].stack[Depth(t)] =
                                  [f EXCEPT !.pc = "pack", !.lock = "none",
                                            !.test = cases[f.op.index + 1]]]
                         ELSE Finish(t, RaisedResult(IndexError), cases, version)
    /\ UNCHANGED <<invocationVars, counters, calls, trace, cases, version, registered,
                   erasures>>

\* PyErr_SetString(PyExc_IndexError, "Parameter pack index out of range")
ParamIndexError == Exc("IndexError", <<P("Parameter pack index out of range")>>)

\* The parameter argument of run(i, handlers, n, ...) that falls back to
\* an empty ArgPack when n is out of range.
build_pack_lenient(test, n) ==
    IF n < 0 \/ n >= Len(test.parameters)
    THEN [raised |-> FALSE, exc |-> NoExc, pack |-> <<>>]
    ELSE [raised |-> FALSE, exc |-> NoExc, pack |-> test.parameters[n + 1]]

\* The parameter argument of run(i, handlers, pypack, ...): None (n < 0
\* here) leaves the ArgPack empty, an integer n picks the n-th parameter
\* set of the TestCase copy or sets IndexError.
build_pack(test, n) ==
    IF n < 0 THEN [raised |-> FALSE, exc |-> NoExc, pack |-> <<>>]
    ELSE IF n >= Len(test.parameters)
    THEN [raised |-> TRUE, exc |-> ParamIndexError, pack |-> <<>>]
    ELSE [raised |-> FALSE, exc |-> NoExc, pack |-> test.parameters[n + 1]]

\* run(i, ...) goes on after get_test: it builds the ArgPack, or returns
\* with the error set before run_test is called.
BuildPack(t) ==
    /\ Depth(t) > 0 /\ Top(t).pc = "pack"
    /\ LET f == Top(t)
           r == build_pack(f.test, f.op.param)
       IN threads' = IF r.raised
                     THEN Finish(t, RaisedResult(r.exc), cases, version)
                     ELSE [threads EXCEPT ![t].stack[Depth(t)] =
                              [f EXCEPT !.pc = "run_test", !.op.pack = r.pack]]
    /\ UNCHANGED <<invocationVars, counters, calls, trace, cases, mutex, version,
                   registered, erasures>>

\* run_test(time, test, ...) on the copy, with no lock held.  A "script"
\* or "add_get" body goes on to call the suite's interface.
RunTestCase(t) ==
    /\ Depth(t) > 0 /\ Top(t).pc = "run_test"
    /\ LET f == Top(t)
           r == run_test_case(f.test)
       IN IF r.raised
          THEN LET w == Context_dtor(RunWorld, 1)
               IN /\ counters' = w.counters
                  /\ calls' = w.calls
                  /\ trace' = w.trace
                  /\ mutex' = Released(t, f.lock)
                  /\ threads' = Finish(t, RaisedResult(r.exc), cases, version)
          ELSE IF f.test.kind = "test" /\ f.test.body \in {"script", "add_get"}
          THEN /\ threads' = [threads EXCEPT ![t].stack[Depth(t)].pc = "body"]
               /\ UNCHANGED <<counters, calls, trace, mutex>>
          ELSE /\ mutex' = Released(t, f.lock)
               /\ threads' = Finish(t, ValueResult(r.value), cases, version)
               /\ UNCHANGED <<counters, calls, trace>>
    /\ UNCHANGED <<invocationVars, cases, version, registered, erasures>>

\* The body of a "script" test calls the suite's interface.
BodyCall(t) ==
    /\ Depth(t) > 0 /\ Top(t).pc = "body" /\ Top(t).test.body = "script"
    /\ \E op \in BodyCallsOn(initial) :
          threads' = [threads EXCEPT ![t].stack = Append(@, Frame(op, MaxThreads + t))]
    /\ UNCHANGED <<invocationVars, counters, calls, trace, cases, mutex, version,
                   registered, erasures>>

\* The body of "add-get-value": lilwil::add_value("max_time", 2.0)
BodyAddValue(t) ==
    /\ Depth(t) > 0 /\ Top(t).pc = "body" /\ Top(t).test.body = "add_get"
    /\ threads' = [threads EXCEPT ![t].stack =
                      Append(@, Frame(Op("add_value", "max_time", RealValue(2), FALSE, <<>>),
                                      MaxThreads + t))]
    /\ UNCHANGED <<invocationVars, counters, calls, trace, cases, mutex, version,
                   registered, erasures>>

\* The body of "add-get-value": lilwil::get_value("max_time")
BodyGetValue(t) ==
    /\ Depth(t) > 0 /\ Top(t).pc = "return" /\ Top(t).test.body = "add_get"
    /\ Top(t).got = NoResult
    /\ threads' = [threads EXCEPT ![t].stack =
                      Append(@, Frame(Op("get_value", "max_time", EmptyValue, FALSE, <<>>),
                                      MaxThreads + t))]
    /\ UNCHANGED <<invocationVars, counters, calls, trace, cases, mutex, version,
                   registered, erasures>>

\* The functor "add-get-value" hands to throw_as<std::runtime_error>.
UhOh == Functor(1, Exc("std::runtime_error", <<P("runtime_error: uh oh")>>), EmptyValue)

\* The body returns; the functor of call() or run_test returns, its lock
\* is released.  "add-get-value" ends with ct(HERE).throw_as<...>(...).
BodyDone(t) ==
    /\ Depth(t) > 0 /\ Top(t).pc = "return"
    /\ Top(t).test.body = "add_get" => Top(t).got # NoResult
    /\ mutex' = Released(t, Top(t).lock)
    /\ threads' = Finish(t, ValueResult(EmptyValue), cases, version)
    /\ IF Top(t).test.body = "add_get"
       THEN LET r == throw_as(RunWorld, "std::runtime_error", UhOh, NoComment, <<>>)
            IN /\ counters' = r.w.counters
               /\ calls' = r.w.calls
               /\ trace' = r.w.trace
       ELSE UNCHANGED <<counters, calls, trace>>
    /\ UNCHANGED <<invocationVars, cases, version, registered, erasures>>

NextRegistry ==
    \/ \E t \in Threads : SuiteCall(t)
    \/ \E t \in Threads : Lock(t)
    \/ \E t \in Threads : Emplace(t)
    \/ \E t \in Threads : Construct(t)
    \/ \E t \in Threads : Lookup(t)
    \/ \E t \in Threads : Call(t)
    \/ \E t \in Threads : BodyCall(t)
    \/ \E t \in Threads : BodyDone(t)

SpecRegistry == InitRegistry /\ [][NextRegistry]_vars

(***************************************************************************)
(* A driver that runs the TestCases by index, next to calls by name.       *)
(***************************************************************************)
InitDriver == InitSuite({DriverSuite})

NextDriver ==
    \/ NextRegistry
    \/ \E t \in Threads : GetTest(t)
    \/ \E t \in Threads : BuildPack(t)
    \/ \E t \in Threads : RunTestCase(t)
    \/ \E t \in Threads : BodyAddValue(t)
    \/ \E t \in Threads : BodyGetValue(t)

SpecDriver == InitDriver /\ [][NextDriver]_vars

(***************************************************************************)
(* Threads that dispatch events on copies of one Context: the copies share *)
(* the Handlers and the counter array.                                     *)
(***************************************************************************)
\* A counter incremented by a load and a later store.
fetch_add_load_store(vec, i, loaded) == [vec EXCEPT ![i + 1] = loaded + 1]

\* (*counters)[i].fetch_add(1u, std::memory_order_relaxed) on
\* std::atomic<std::size_t>: one indivisible read-modify-write, whatever
\* was loaded before.
fetch_add(vec, i, loaded) == [vec EXCEPT ![i + 1] = @ + 1]

\* The counter array covers event e.
Covered(e) == counters.attached /\ e < Len(counters.vec)

\* The driver attaches a counter array for Failure and Success or for every
\* event kind and registers no Handler or one per event kind.
InitWorkers ==
    /\ InitCommon
    /\ throwing = {}
    /\ handlers \in {<<>>, HandlerVector(Cardinality(Events), Events)}
    /\ counters.attached

\* A thread enters handle(e) on its copy: the Handler of e, if there is
\* one, is called.
WorkerDispatch(t) ==
    /\ workers[t].pc = "ready"
    /\ Len(trace) < MaxEvents
    /\ \E e \in WorkerEvents :
          LET w0 == [World("ct") EXCEPT
                        !.trace = Append(@, [id |-> "copy", event |-> e,
                                             scopes |-> ctx["ct"].scopes, logs |-> <<>>,
                                             comment |-> NoComment, ts |-> <<>>,
                                             keypairs |-> <<>>])]
              w1 == IF Registered(e) THEN emit_event(w0, e, <<>>) ELSE w0
          IN /\ calls' = w1.calls
             /\ trace' = w1.trace
             /\ workers' = [workers EXCEPT ![t].pc = "count", ![t].event = e,
                                           ![t].loaded = IF Covered(e)
                                                         THEN counters.vec[e + 1] ELSE 0]
    /\ UNCHANGED <<handlers, throwing, counters, ctx, pc, steps, exc, origin, result, driver,
                   entry, nTrue, nFalse, captured, pending, lastHandle, ceRaised,
                   ceSwallowed, countVars, sectionVars, registryVars, valueVars,
                   assertVars>>

\* The thread's handle(e) counts the event, if the array covers it, and
\* returns.
WorkerCount(t) ==
    /\ workers[t].pc = "count"
    /\ LET e == workers[t].event
       IN /\ counters' = IF Covered(e)
                         THEN [counters EXCEPT !.vec = fetch_add(@, e, workers[t].loaded)]
                         ELSE counters
          /\ workers' = [workers EXCEPT ![t].pc = "ready", ![t].made[e] = @ + 1]
    /\ UNCHANGED <<handlers, throwing, ctx, calls, trace, pc, steps, exc, origin, result,
                   driver, entry, nTrue, nFalse, captured, pending, lastHandle, ceRaised,
                   ceSwallowed, countVars, sectionVars, registryVars, valueVars,
                   assertVars>>

\* The thread ends and is joined.
WorkerExit(t) ==
    /\ workers[t].pc = "ready"
    /\ workers' = [workers EXCEPT ![t].pc = "joined"]
    /\ UNCHANGED <<coreVars, countVars, sectionVars, registryVars, valueVars, assertVars>>

NextWorkers ==
    \/ \E t \in Threads : WorkerDispatch(t)
    \/ \E t \in Threads : WorkerCount(t)
    \/ \E t \in Threads : WorkerExit(t)

SpecWorkers == InitWorkers /\ [][NextWorkers]_vars

(***************************************************************************)
(* Properties.                                                             *)
(***************************************************************************)
Last(s) == s[Len(s)]

\* The handle() calls entered so far for event e.
Dispatched(e) == {i \in 1..Len(trace) : trace[i].event = e}

\* The Handler calls made so far for event e.
HandlerCalls(e) == {i \in 1..Len(calls) : calls[i].event = e}

\* C1: after N require(true) and M require(false) calls on a Context whose
\* counter array covers Success and Failure and started at zero,
\* count(Success) = N and count(Failure) = M, with or without Handlers
\* registered for Success and Failure.
C1_RequireCounts ==
    (counters.attached /\ Len(counters.vec) > Success)
        => (count(Success) = nTrue /\ count(Failure) = nFalse)

\* C1 witness: two require(true) and one require(false) have been counted,
\* with a Handler for Failure and none for Success.
C1_Witness ==
    /\ counters.attached /\ Len(counters.vec) > Success
    /\ Registered(Failure) /\ ~Registered(Success)
    /\ nTrue = 2 /\ nFalse = 1
    /\ count(Success) = 2 /\ count(Failure) = 1

\* C2: when a handle() call has returned on a Context, with or without a
\* Handler for its event, the Context's log is exactly its reserved prefix:
\* logs.size() = reserved_logs, the captured entries are all there, and the
\* ordinary entries logged since the previous event are gone.
C2_LogTruncated ==
    lastHandle # "none" =>
        /\ Len(ctx[lastHandle].logs) = ctx[lastHandle].reserved_logs
        /\ lastHandle = "body" => ctx["body"].logs = captured
        /\ lastHandle = "ct" => ctx["ct"].logs = <<>>

\* C2 witness: a handle() call for an event without a Handler has returned
\* on a Context that held captured entries followed by ordinary ones.
C2_Witness ==
    /\ lastHandle = "body"
    /\ ~Registered(Last(trace).event)
    /\ captured # <<>>
    /\ Len(Last(trace).logs) > Len(captured)
    /\ ctx["body"].logs = captured

\* C3: every event dispatched on a Context finds in its log the entries
\* captured so far, in capture order, ahead of the ordinary entries logged
\* since the previous event; a Handler called for it receives them in that
\* order; and when the dispatch returns only the captured entries remain, so
\* an ordinary entry goes with the next dispatched event only.
C3_CapturedAhead ==
    [][(Len(trace') = Len(trace) + 1 /\ Last(trace').id = "body") =>
          /\ Last(trace').logs = captured \o pending
          /\ Len(calls') = Len(calls) + 1 =>
                SubSeq(Last(calls').strings, 1, Len(captured) + Len(pending))
                    = Finalize(captured \o pending)
          /\ lastHandle' = "body" => ctx'["body"].logs = captured]_vars

\* C3 witness: a message was logged, then two values were captured, then an
\* event was dispatched to a Handler: the captured values came first.
C3_Witness ==
    /\ calls # <<>>
    /\ Len(captured) = 2
    /\ captured[1].value = IntegerValue(2)
    /\ Len(Last(calls).strings) > 3
    /\ SubSeq(Last(calls).strings, 1, 3)
           = <<KeyString("i", "2"), KeyString("j", "2"), KeyString("", "message \\x01")>>

\* What the Handler of a dispatched event is to receive.
ExpectedCall(t) ==
    [event |-> t.event, scopes |-> t.scopes,
     strings |-> Finalize(t.logs \o AddKeyValues(AddKeyValue_Comment(<<>>, t.comment), t.ts))
                 \o Finalize(t.keypairs)]

\* C4: the Handler calls made are exactly one per dispatched event whose
\* kind has a Handler, in dispatch order, each with the event kind, the
\* dispatching Context's scopes and one string per log entry: the entries
\* accumulated before the call first, then the call's extra entries in
\* insertion order.  No other Handler is called.
C4_HandlerCalledOnce ==
    LET sel == SelectSeq(trace, LAMBDA t : Registered(t.event))
    IN calls = [i \in 1..Len(sel) |-> ExpectedCall(sel[i])]

\* C4 witness: of two dispatched events one had a Handler, which was called
\* with accumulated entries, a comment and key pairs, while the Handler
\* registered for Exception was not called.
C4_Witness ==
    /\ Len(trace) = 2 /\ Len(calls) = 1
    /\ Registered(Exception) /\ calls[1].event # Exception
    /\ \E i \in 1..Len(trace) :
          /\ Registered(trace[i].event)
          /\ trace[i].logs # <<>>
          /\ trace[i].comment # NoComment
          /\ trace[i].keypairs # <<>>
          /\ Len(calls[1].strings) = Len(trace[i].logs) + 5

\* The adapter has finished: its outcome is with run_test or beyond.
AdapterDone == pc \in {"driver", "done"}

\* The body raised an exception that is neither a Skip nor a ClientError.
BodyFailed == origin = "body" /\ exc.type \notin {"Skip", "ClientError"}

\* C5: with no Handler registered for Exception, an adapted test whose body
\* throws (anything but a Skip or a ClientError) adds one to
\* count(Exception), the exception leaves the adapter, and no Handler is
\* called for the Exception event.
C5_CountedNotReported ==
    (AdapterDone /\ BodyFailed /\ ~Registered(Exception)) =>
        /\ Cardinality(Dispatched(Exception)) = 1
        /\ (counters.attached /\ Len(counters.vec) > Exception) => count(Exception) = 1
        /\ result = Raised(exc)
        /\ HandlerCalls(Exception) = {}

\* C5 witness: the body threw a std::runtime_error, no Handler is set for
\* Exception (other Handlers are), and the counter of Exception reads one.
C5_Witness ==
    /\ AdapterDone /\ BodyFailed /\ ~Registered(Exception)
    /\ exc.type = "std::runtime_error"
    /\ Registered(Success)
    /\ counters.attached /\ Len(counters.vec) > Exception /\ count(Exception) = 1
    /\ result = Raised(exc)

\* C6: an adapted test of arity k called with n # k arguments never runs
\* its body; exactly one Skipped event is dispatched, whose comment reads
\* "wrong number of arguments (expected k, got n)" and reaches the Handler
\* of Skipped if there is one; and the Skip leaves the adapter.
C6_WrongArityIsSkipped ==
    (AdapterDone /\ entry.kind = "arity") =>
        LET k == Len(entry.sig)
            n == Len(entry.args)
            text == "wrong number of arguments (expected " \o ToString(k)
                        \o ", got " \o ToString(n) \o ")"
        IN /\ k # n
           /\ steps = 0 /\ ctx["body"] = NewContext(<<"test">>)
           /\ Dispatched(Skipped) = {1} /\ Dispatched(Exception) = {}
           /\ trace[1].comment.comment = <<P(text)>>
           /\ Registered(Skipped) =>
                 calls[1] = [event |-> Skipped, scopes |-> <<"test">>,
                             strings |-> <<KeyString("__comment", text)>>]
           /\ ~Registered(Skipped) => calls = <<>>
           /\ (counters.attached /\ Len(counters.vec) > Skipped) => count(Skipped) = 1
           /\ result = Raised(Skip(<<P(text)>>))

\* C6 witness: a two-parameter test was called with three arguments and
\* the Handler of Skipped received "expected 2, got 3".
C6_Witness ==
    /\ AdapterDone /\ entry.kind = "arity"
    /\ Len(entry.sig) = 2 /\ Len(entry.args) = 3
    /\ calls # <<>>
    /\ calls[1].strings
           = <<KeyString("__comment", "wrong number of arguments (expected 2, got 3)")>>
    /\ result.exc.type = "Skip"

\* C7: when the body raises Skip with message m, the adapter dispatches
\* exactly one Skipped event, on the caller's Context, with m as its
\* comment (the Handler of Skipped, if any, receives m rendered), dispatches
\* no Exception event, and the same Skip leaves the adapter: the call
\* returns no Value.
C7_SkipIsReportedOnce ==
    (AdapterDone /\ origin = "body" /\ exc.type = "Skip") =>
        /\ Cardinality(Dispatched(Skipped)) = 1
        /\ Dispatched(Exception) = {}
        /\ \A i \in Dispatched(Skipped) :
              /\ trace[i].id = "ct"
              /\ trace[i].comment = Comment(exc.what, <<>>, 0)
        /\ \A i \in HandlerCalls(Skipped) :
              calls[i].strings = <<KeyString("__comment", ToString_string(exc.what))>>
        /\ Cardinality(HandlerCalls(Skipped)) = IF Registered(Skipped) THEN 1 ELSE 0
        /\ result = Raised(exc)

\* C7 witness: the body logged and asserted, then raised Skip; the Handler
\* of Skipped received the message and the Skip left the adapter.
C7_Witness ==
    /\ AdapterDone /\ origin = "body" /\ exc.type = "Skip"
    /\ steps > 1 /\ nFalse > 0
    /\ calls # <<>>
    /\ Last(calls) = [event |-> Skipped, scopes |-> <<"test">>,
                      strings |-> <<KeyString("__comment", "this test is skipped\\x0A")>>]
    /\ result.kind = "raised" /\ result.exc.type = "Skip"

\* The log the adapter hands to handle(Exception, ...) for exception e.
ReasonLog(e) == <<KeyValue("reason", CStrValue(e.what))>>

\* C8 as stated: whenever the body raises an exception other than Skip or
\* ClientError, the adapter logs the exception's message, dispatches exactly
\* one Exception event and re-raises the exception.
C8_Original ==
    (AdapterDone /\ BodyFailed) =>
        /\ Cardinality(Dispatched(Exception)) = 1
        /\ \A i \in Dispatched(Exception) : trace[i].logs = ReasonLog(exc)
        /\ result = Raised(exc)

\* C8, amended: whenever the body raises an exception other than Skip or
\* ClientError, the adapter dispatches exactly one Exception event, on the
\* caller's Context, and the same exception leaves the adapter: no Value is
\* returned.  The event's log holds the exception's message under "reason"
\* when the exception derives from std::exception, and nothing otherwise.
C8_ExceptionIsReportedOnce ==
    (AdapterDone /\ BodyFailed) =>
        /\ Cardinality(Dispatched(Exception)) = 1
        /\ Dispatched(Skipped) = {}
        /\ \A i \in Dispatched(Exception) :
              /\ trace[i].id = "ct"
              /\ trace[i].logs = IF exc.type \in StdExceptionTypes
                                 THEN ReasonLog(exc) ELSE <<>>
        /\ \A i \in HandlerCalls(Exception) :
              calls[i].strings = IF exc.type \in StdExceptionTypes
                                 THEN <<KeyString("reason", ToString_string(exc.what))>>
                                 ELSE <<>>
        /\ Cardinality(HandlerCalls(Exception)) = IF Registered(Exception) THEN 1 ELSE 0
        /\ result = Raised(exc)

\* C8 witness: the body threw std::runtime_error("runtime_error: uh oh");
\* the Handler of Exception received the message and the exception left
\* the adapter.
C8_Witness ==
    /\ AdapterDone /\ BodyFailed
    /\ exc.type = "std::runtime_error"
    /\ \E i \in HandlerCalls(Exception) :
          calls[i].strings = <<KeyString("reason", "runtime_error: uh oh")>>
    /\ result = Raised(exc) /\ result.kind = "raised"

C10_ConversionFailure ==
    (AdapterDone /\ entry.kind = "conversion") =>
        /\ steps = 0 /\ ctx["body"] = NewContext(<<"test">>)
        /\ Len(trace) = 1 /\ Dispatched(Exception) = {1}
        /\ exc.type = "std::invalid_argument"
        /\ \E i \in 1..Len(entry.sig) :
              /\ ~view_as(entry.sig[i], entry.args[i]).ok
              /\ exc.what = no_conversion(entry.args[i], entry.sig[i])
        /\ trace[1].logs = ReasonLog(exc)
        /\ Registered(Exception) =>
              calls = <<[event |-> Exception, scopes |-> <<"test">>,
                         strings |-> <<KeyString("reason", ToString_string(exc.what))>>]>>
        /\ ~Registered(Exception) => calls = <<>>
        /\ result = Raised(exc)

\* C10 witness: a test taking (int, std::string) was called with a
\* std::string and an Integer; the second conversion failed first and its
\* message reached the Handler of Exception.
C10_Witness ==
    /\ AdapterDone /\ entry.kind = "conversion"
    /\ entry.sig = <<"int", "std::string">>
    /\ entry.args = <<StringValue(<<P("a")>>), IntegerValue(1)>>
    /\ calls # <<>>
    /\ calls[1].strings = <<KeyString("reason",
           "lilwil: no conversion from Value 1 (typeid 'long') to typeid 'std::string'")>>
    /\ result.kind = "raised" /\ result.exc.type = "std::invalid_argument"

\* C11: count(e) returns the counter of e when a counter array is attached
\* and e lies inside it, and otherwise returns -1 without reading outside
\* the array.
C11_CountSentinel ==
    counted.outcome # "none" =>
        IF counters.attached /\ counted.event < Len(counters.vec)
        THEN counted = CountReturned(counted.event, counters.vec[counted.event + 1], FALSE)
        ELSE counted = CountReturned(counted.event, -1, FALSE)

\* The scope stack of the root Context of the invocation: {test.name}.
RootScopes == <<"test">>

C13_SectionLogsIndependent ==
    [][/\ Len(sections') = Len(sections) + 1 =>
             /\ Last(sections').logs = <<>>
             /\ Last(sections').reserved_logs = 0
             /\ SubSeq(sections', 1, Len(sections)) = sections
             /\ ctx' = ctx
       /\ (Len(trace') = Len(trace) + 1 /\ Last(trace').id = "section") =>
             /\ ctx' = ctx
             /\ Len(sections') = Len(sections)
             /\ \A i \in 1..(Len(sections) - 1) : sections'[i] = sections[i]
       /\ (Len(trace') = Len(trace) + 1 /\ Last(trace').id = "body") =>
             Last(trace').logs = captured \o pending
       /\ pc' = "body" => ctx'["body"].logs = captured' \o pending'
      ]_vars

\* C13 witness: the body logged a message and opened a section; the child
\* started empty and dispatched an event; the body's message is still
\* pending on the body's Context.
C13_Witness ==
    /\ pc = "body"
    /\ pending # <<>>
    /\ sections # <<>>
    /\ trace # <<>>
    /\ Last(trace).id = "section" /\ Last(trace).logs = <<>>
    /\ ctx["body"].logs = pending

\* The threads whose running functor is a writer's / a reader's.
WritersIn == {t \in Threads : \E i \in InFunctor(t) : threads[t].stack[i].op.fn \in Writers}
ReadersIn == {t \in Threads : \E i \in InFunctor(t) : threads[t].stack[i].op.fn \notin Writers}

OnlyAdds ==
    /\ version = Cardinality(registered)
    /\ \A t \in Threads : \A i \in InFunctor(t) : threads[t].stack[i].op.fn # "set_value"

IsPrefix(a, b) == Len(a) <= Len(b) /\ a = SubSeq(b, 1, Len(a))

\* C15: with threads adding to the suite while others look entries up,
\* (1) no reader's functor ever runs on, and no call ever hands back, a
\* suite with a slot that is not yet constructed; (2) whenever no writer is
\* at work and the suite has only been added to, it is the initial suite
\* followed by exactly one TestCase per finished add, so its size is the
\* initial size plus the number of adds; (3) what a reader saw is a prefix
\* of that suite: it saw each insertion either whole or not at all.
C15_AddsLinearizable ==
    /\ ReadersIn # {} => \A i \in 1..Len(cases) : cases[i] # PartialSlot
    /\ \A t \in Threads : \A i \in 1..Len(threads[t].seen) : threads[t].seen[i] # PartialSlot
    /\ (OnlyAdds /\ WritersIn = {}) =>
          /\ Len(cases) = Len(initial) + Cardinality(registered)
          /\ IsPrefix(initial, cases)
          /\ \A id \in registered :
                Cardinality({i \in 1..Len(cases) : cases[i].id = id}) = 1
          /\ \A t \in Threads : Done(t) => IsPrefix(threads[t].seen, cases)

\* C15 witness: two threads have added to a suite of five TestCases, which
\* now holds seven, and the first of them saw its own insertion only.
C15_Witness ==
    /\ Len(initial) = 5
    /\ registered = {1, 2}
    /\ Done(1) /\ Done(2)
    /\ OnlyAdds
    /\ Len(cases) = 7
    /\ Len(threads[1].seen) = 6

\* Some thread can take a step.
CanStep == \E t \in Threads : ENABLED (SuiteCall(t) \/ Lock(t) \/ Emplace(t) \/ Construct(t)
                                          \/ Lookup(t) \/ Call(t) \/ BodyCall(t) \/ BodyDone(t))

\* C16: every call of the suite's interface completes: as long as a call is
\* in progress on some thread, some thread can take a step, also when the
\* body of a test called through call() calls add_test, add_value,
\* set_value or call() itself.
C16_EveryCallCompletes ==
    (\E t \in Threads : Depth(t) > 0) => CanStep

\* The positions of the TestCases named name, and the earliest of them.
Matches(cs, name) == {i \in 1..Len(cs) : cs[i].name = name}
Earliest(cs, name) == CHOOSE i \in Matches(cs, name) : \A j \in Matches(cs, name) : i <= j

Lookups == {"find", "call", "get_value"}

\* C17: a lookup by name that finds TestCases of that name resolves to the
\* one registered first: find returns its 0-based index, call returns what
\* its function returns, get_value returns its stored value or treats it as
\* not a simple value, however many later TestCases share the name.
C17_FirstMatch ==
    \A t \in Threads :
        (Done(t) /\ threads[t].op.fn \in Lookups
                 /\ Matches(threads[t].seen, threads[t].op.name) # {}) =>
            LET op == threads[t].op
                i == Earliest(threads[t].seen, op.name)
                c == threads[t].seen[i]
            IN CASE op.fn = "find" -> threads[t].result = IndexResult(i - 1)
                 [] op.fn = "call" ->
                        threads[t].result =
                            ValueResult(IF c.kind = "value" THEN c.value ELSE EmptyValue)
                 [] op.fn = "get_value" ->
                        threads[t].result =
                            IF c.kind = "value" THEN ValueResult(c.value)
                            ELSE IF op.allow_missing THEN ValueResult(EmptyValue)
                            ELSE RaisedResult(not_a_simple_value(op.name))

\* C17 witness: with a test "dup" registered first, a value "dup" after it
\* and a second test "dup" added by the other thread, find("dup") has
\* returned index 0.
C17_Witness ==
    \E t \in Threads :
        /\ Done(t) /\ threads[t].op.fn = "find" /\ threads[t].op.name = "dup"
        /\ Matches(threads[t].seen, "dup") = {1, 3, 6}
        /\ threads[t].seen[1].kind = "test" /\ threads[t].seen[6].kind = "test"
        /\ threads[t].result = IndexResult(0)

\* The threads whose set_value has returned as the first structural change
\* of the suite: it worked on the initial suite.
SetValueDone ==
    {t \in Threads : Done(t) /\ threads[t].op.fn = "set_value" /\ threads[t].version = 1}

\* The position in cs of the k-th TestCase that is not named name.
KthOther(cs, name, k) ==
    CHOOSE i \in 1..Len(cs) \ Matches(cs, name) :
        Cardinality({j \in 1..Len(cs) \ Matches(cs, name) : j < i}) = k - 1

\* C18 as stated: removal by name leaves no TestCase of that name, keeps
\* the others and reports how many it removed.
C18_Original ==
    \A t \in SetValueDone :
        LET name == threads[t].op.name
        IN /\ Matches(threads[t].seen, name) = {}
           /\ (IF threads[t].result.erased THEN 1 ELSE 0) = Cardinality(Matches(initial, name))

\* C18, amended: set_value(name, v) removes every TestCase named name,
\* keeps the others in their order, appends one stored value named name,
\* and returns whether it removed anything, not how many.
C18_SetValueReplaces ==
    \A t \in SetValueDone :
        LET op == threads[t].op
            left == threads[t].seen
            n == Len(initial) - Cardinality(Matches(initial, op.name))
        IN /\ Len(left) = n + 1
           /\ \A k \in 1..n : left[k] = initial[KthOther(initial, op.name, k)]
           /\ left[n + 1].name = op.name
           /\ left[n + 1].kind = "value"
           /\ left[n + 1].value = op.value
           /\ threads[t].result = BoolResult(Matches(initial, op.name) # {})

\* C18 witness: set_value("dup", 8) on a suite with two TestCases named
\* "dup" among five has returned true and left four, the last one the new
\* value "dup".
C18_Witness ==
    \E t \in SetValueDone :
        /\ Cardinality(Matches(initial, "dup")) = 2
        /\ Len(initial) = 5
        /\ Len(threads[t].seen) = 4
        /\ Matches(threads[t].seen, "dup") = {4}
        /\ threads[t].result = BoolResult(TRUE)

\* The lookup op finds a stored value first in cs (or, for find, finds a
\* TestCase at all).
FindsValue(cs, op) ==
    /\ op.fn \in Lookups
    /\ Matches(cs, op.name) # {}
    /\ op.fn # "find" => cs[Earliest(cs, op.name)].kind = "value"

\* C19: between structural changes of the suite lookups are stable: two
\* find calls of one name return the same index, and call and get_value on
\* a name whose first TestCase is a stored value return that same value,
\* whatever arguments are passed; and such a lookup dispatches no event and
\* leaves the suite as it is.
C19_StableLookups ==
    /\ [](\A t, u \in Threads :
             (/\ Done(t) /\ Done(u)
              /\ threads[t].version = threads[u].version
              /\ threads[t].op.name = threads[u].op.name
              /\ (threads[t].op.fn = "find") = (threads[u].op.fn = "find")
              /\ FindsValue(threads[t].seen, threads[t].op)
              /\ FindsValue(threads[u].seen, threads[u].op))
                 => threads[t].result = threads[u].result)
    /\ [][\A t \in Threads :
             (/\ Depth(t) = 1 /\ Top(t).pc = "in" /\ FindsValue(cases, Top(t).op)
              /\ Done(t)')
                 => UNCHANGED <<cases, version, counters, calls, trace>>]_vars

\* C19 witness: both threads have called call("x", ctx, ...) on the same
\* suite, one with no argument and one with an argument, and both got the
\* stored value 4; no event has been dispatched.
C19_Witness ==
    /\ Done(1) /\ Done(2)
    /\ threads[1].op.fn = "call" /\ threads[2].op.fn = "call"
    /\ threads[1].op.name = "x" /\ threads[2].op.name = "x"
    /\ threads[1].op.pack # threads[2].op.pack
    /\ threads[1].version = threads[2].version
    /\ threads[1].result = ValueResult(IntegerValue(4))
    /\ threads[2].result = ValueResult(IntegerValue(4))
    /\ trace = <<>> /\ cases = initial

\* The threads whose call() or get_value() has ended.
Looked == {t \in Threads : Done(t) /\ threads[t].op.fn \in {"call", "get_value"}}

\* What C20 says of results: a missing name raises not-found, a name whose
\* first TestCase is not a stored value makes get_value raise another
\* error, and get_value with allow_missing returns an empty Value instead.
FailuresDistinct ==
    \A t \in Looked :
        LET op == threads[t].op
            cs == threads[t].seen
        IN /\ Matches(cs, op.name) = {} =>
                 threads[t].result =
                     IF op.fn = "get_value" /\ op.allow_missing THEN ValueResult(EmptyValue)
                     ELSE RaisedResult(not_found(op.name))
           /\ (/\ op.fn = "get_value" /\ Matches(cs, op.name) # {}
               /\ cs[Earliest(cs, op.name)].kind # "value") =>
                 /\ threads[t].result =
                        IF op.allow_missing THEN ValueResult(EmptyValue)
                        ELSE RaisedResult(not_a_simple_value(op.name))
                 /\ threads[t].result # RaisedResult(not_found(op.name))

\* The threads whose call() has raised not-found.
CallNotFound ==
    {t \in Threads : Done(t) /\ threads[t].op.fn = "call"
                             /\ threads[t].result = RaisedResult(not_found(threads[t].op.name))}

\* C20 as stated: the failures are told apart as above, and a lookup of a
\* missing name dispatches no event.
C20_Original ==
    /\ FailuresDistinct
    /\ trace = <<>>

\* C20, amended: the failures are told apart as above and no test is
\* called; get_value dispatches no event, but each call() that raises
\* not-found dispatches one Traceback event on the Context it received by
\* value, which is destroyed while the error unwinds: the Traceback counter
\* goes up and the Traceback Handler, if there is one, is called.
C20_LookupFailures ==
    /\ FailuresDistinct
    /\ Len(trace) = Cardinality(CallNotFound)
    /\ \A i \in 1..Len(trace) :
          /\ trace[i].event = Traceback
          /\ trace[i].id = "call"
          /\ trace[i].scopes = ctx["ct"].scopes
    /\ counters.vec[Traceback + 1] = Cardinality(CallNotFound)
    /\ Len(calls) = IF Registered(Traceback) THEN Cardinality(CallNotFound) ELSE 0

\* C20 witness: on an empty suite call("x", ctx) has raised not-found and
\* its Context has called the Traceback Handler once, and
\* get_value("x", true) has returned an empty Value without any event.
C20_Witness ==
    \E t, u \in Threads :
        /\ initial = <<>>
        /\ t \in CallNotFound /\ threads[t].op.name = "x"
        /\ Done(u) /\ threads[u].op.fn = "get_value" /\ threads[u].op.allow_missing
        /\ threads[u].seen = <<>>
        /\ threads[u].result = ValueResult(EmptyValue)
        /\ Registered(Traceback)
        /\ Len(trace) = 1 /\ Len(calls) = 1 /\ Last(calls).event = Traceback

\* The integer types, and the width of each integral type.
IntegerTypes == {"unsigned char", "int", "Integer"}
Bits(T) ==
    CASE T = "bool" -> 1
      [] T = "unsigned char" -> 8
      [] T = "int" -> 32
      [] T = "Integer" -> 64

\* A view_as<T> call has been made on a Value that holds another type S.
Viewed(S, T) ==
    /\ viewed.op = "view_as" /\ viewed.T = T
    /\ has_value(stored) /\ stored.type = S /\ S # T

\* The call failed with the no-conversion error that names both types.
NoConversion ==
    /\ ~viewed.r.ok
    /\ viewed.r.what =
          <<P("lilwil: no conversion from Value"
              \o (IF to_string(stored) # "" THEN " " \o to_string(stored) ELSE "")
              \o " (typeid '" \o type_name(stored.type) \o "') to typeid '"
              \o type_name(viewed.T) \o "'")>>

\* C21 as stated: integer <-> bool both ways, integer -> any wider
\* integer, integer or real -> real and string -> string view succeed;
\* string -> number fails with the no-conversion error.
C21_Original ==
    /\ \A S \in IntegerTypes : Viewed(S, "bool") => viewed.r.ok
    /\ \A T \in IntegerTypes : Viewed("bool", T) => viewed.r.ok
    /\ \A S, T \in IntegerTypes : (Bits(S) < Bits(T) /\ Viewed(S, T)) => viewed.r.ok
    /\ \A S \in IntegerTypes : Viewed(S, "Real") => viewed.r.ok
    /\ Viewed("std::string", "std::string_view") => viewed.r.ok
    /\ \A T \in IntegerTypes \cup {"Real"} : Viewed("std::string", T) => NoConversion

\* C21, amended: when the stored type is not the requested one, view_as
\* succeeds exactly from a stored Integer (std::ptrdiff_t) to bool (true
\* iff non-zero), to any integer type (converted implicitly, so a narrower
\* type keeps the low bits) and to Real, from std::string to
\* std::string_view, and from std::string_view or char const * to
\* std::string; every other pair, a stored bool or int viewed as a wider
\* integer included, fails with the no-conversion error that names both
\* types.
C21_ViewAsRules ==
    \A S \in {v.type : v \in StoredValues}, T \in ViewTypes :
        Viewed(S, T) =>
            IF S = "Integer" /\ T \in {"bool", "unsigned char", "int", "Real"}
            THEN /\ viewed.r.ok
                 /\ viewed.r.value.type = T
                 /\ T = "bool" => viewed.r.value.b = (stored.n # 0)
                 /\ T = "unsigned char" =>
                        /\ viewed.r.value.n \in 0..255
                        /\ (stored.n - viewed.r.value.n) % 256 = 0
                 /\ T \in {"int", "Real"} => viewed.r.value.n = stored.n
            ELSE IF \/ S = "std::string" /\ T = "std::string_view"
                    \/ S \in {"std::string_view", "char const *"} /\ T = "std::string"
            THEN /\ viewed.r.ok
                 /\ viewed.r.value.type = T
                 /\ viewed.r.value.s = stored.s
            ELSE NoConversion

\* C21 witness: a Value constructed from true has been viewed as int and
\* the call has failed with the no-conversion error.
C21_Witness ==
    /\ stored = BoolValue(TRUE)
    /\ Viewed("bool", "int")
    /\ NoConversion

\* The built-in types: bool, the integers, Real and std::string.
BuiltInTypes == {"bool", "int", "Integer", "Real", "std::string"}

NumberTypes == {"bool", "unsigned char", "int", "Integer", "Real"}

\* C23: view_as<T> on an empty Value returns T() when T is default
\* constructible and fails otherwise, with an error that names T; a string
\* viewed as a number or a number viewed as a string fails with the
\* no-conversion error that names both types, and never yields a value.
C23_ConversionErrors ==
    /\ (viewed.op = "view_as" /\ ~has_value(stored)) =>
          IF viewed.T # "std::type_index"
          THEN /\ viewed.r.ok
               /\ viewed.r.value =
                      [type |-> viewed.T, b |-> FALSE, n |-> 0, s |-> <<>>]
          ELSE /\ ~viewed.r.ok
               /\ viewed.r.what =
                      <<P("lilwil: no conversion from empty Value to typeid '"
                          \o viewed.T \o "'")>>
    /\ \A S \in StringTypes, T \in NumberTypes : Viewed(S, T) => NoConversion
    /\ \A S \in NumberTypes, T \in StringTypes : Viewed(S, T) => NoConversion

\* C23 witness: Value(std::string("a")).view_as<int>() has failed, and the
\* error names std::string and int.
C23_Witness ==
    /\ stored = StringValue(<<P("a")>>)
    /\ Viewed("std::string", "int")
    /\ ~viewed.r.ok
    /\ viewed.r.what =
          <<P("lilwil: no conversion from Value a (typeid 'std::string') to typeid 'int'")>>

\* The threads whose add_test or add_value has returned as the first
\* structural change of the suite.
AddDone ==
    {t \in Threads : Done(t) /\ threads[t].op.fn \in {"add_test", "add_value"}
                             /\ threads[t].version = 1}

\* C29: add_test appends the TestCase behind the existing ones,
\* which keep their indices, and returns the index of the new one, the
\* number of TestCases there were.
C29_Original ==
    \A t \in AddDone :
        /\ threads[t].seen = Append(initial, threads[t].seen[Len(initial) + 1])
        /\ threads[t].seen[Len(initial) + 1].id = t
        /\ threads[t].result = IndexResult(Len(initial))

\* The TestCases of cs that are not named name, in their order.
Others(cs, name) == SelectSeq(cs, LAMBDA c : c.name # name)

\* The threads whose find, call or get_value has returned.
LookupDone == {t \in Threads : Done(t) /\ threads[t].op.fn \in Lookups}

\* C30: set_value(name, v) leaves exactly one TestCase named name, the last
\* one, holding v, keeps the other TestCases in their relative order and
\* returns true iff a TestCase of that name was there before; readers never
\* see the step between removal and insertion: a lookup never meets a
\* half-built TestCase, and a name that was in the suite is found by every
\* lookup, before and after set_value.
C30_SetValueAtomic ==
    /\ \A t \in SetValueDone :
          LET op == threads[t].op
              left == threads[t].seen
          IN /\ Matches(left, op.name) = {Len(left)}
             /\ left[Len(left)] = ValueCase(op.name, op.value, t)
             /\ Others(left, op.name) = Others(initial, op.name)
             /\ threads[t].result.erased = (Matches(initial, op.name) # {})
    /\ \A u \in LookupDone :
          /\ \A i \in 1..Len(threads[u].seen) : threads[u].seen[i].name # PartialSlot.name
          /\ Matches(initial, threads[u].op.name) # {}
                => Matches(threads[u].seen, threads[u].op.name) # {}

\* C30 witness: set_value("dup", 8) has replaced the two TestCases named
\* "dup", and a get_value("dup") on the other thread, run after it, has
\* returned the new value 8.
C30_Witness ==
    \E t \in SetValueDone : \E u \in LookupDone :
        /\ threads[t].result = BoolResult(TRUE)
        /\ Cardinality(Matches(initial, "dup")) = 2
        /\ threads[u].op.fn = "get_value" /\ threads[u].op.name = "dup"
        /\ threads[u].version = 1
        /\ threads[u].seen = threads[t].seen
        /\ threads[u].result = ValueResult(IntegerValue(8))

\* The assertion or timing call of one of the kinds S has just returned to
\* the body: the last handle() call is the one it made.
JustAsserted(S) == pc = "body" /\ asserted.op \in S /\ asserted.ret.kind = "value"

\* Whether the relation a comparator is named after holds.
Holds(op, l, r) ==
    CASE op = "equal" -> l = r
      [] op = "not_equal" -> l # r
      [] op = "less" -> l < r
      [] op = "greater" -> l > r
      [] op = "less_eq" -> l <= r
      [] op = "greater_eq" -> l >= r

\* The Ops enumerator of a comparator.
TagOf(op) ==
    CASE op = "equal" -> "eq"
      [] op = "not_equal" -> "ne"
      [] op = "less" -> "lt"
      [] op = "greater" -> "gt"
      [] op = "less_eq" -> "le"
      [] op = "greater_eq" -> "ge"

\* The keys of a sequence of entries.
Keys(es) == {es[i].key : i \in 1..Len(es)}

\* The outcome and the three entries every comparator logs.
ComparatorLogs(a) ==
    /\ Last(trace).event = (IF Holds(a.op, a.l, a.r) THEN Success ELSE Failure)
    /\ a.ret = Returned(BoolValue(Holds(a.op, a.l, a.r)))
    /\ \E i, j, k \in 1..Len(Last(trace).ts) :
          /\ i < j /\ j < k
          /\ Last(trace).ts[i] = KeyValue("__lhs", IntValue(a.l))
          /\ Last(trace).ts[j] = KeyValue("__rhs", IntValue(a.r))
          /\ Last(trace).ts[k] = KeyValue("__op", OpsValue(TagOf(a.op)))

FunctorRaises == asserted.f.at = 1

\* The last call returned ok after dispatching Success (ok) or Failure.
Asserted(ok) ==
    /\ asserted.ret = Returned(BoolValue(ok))
    /\ asserted.invoked = 1
    /\ JustAsserted({asserted.op}) =>
          Last(trace).event = (IF ok THEN Success ELSE Failure)

\* The last call let the exception e of its functor through.
Propagated(e) == asserted.ret = Raised(e) /\ asserted.invoked = 1

\* A step in which a call on the Context ends with an exception dispatches
\* no event and counts none.
RaisingCallIsSilent ==
    (asserted' # asserted /\ asserted'.ret.kind = "raised")
        => UNCHANGED <<trace, calls, counters>>

\* C25: throw_as<E>(f) dispatches Success and returns true iff f raises an
\* E, dispatches Failure and returns false if f returns, and lets any other
\* exception through; no_throw(f) dispatches Success iff f returns,
\* dispatches Failure and swallows the exception if f raises anything but
\* a ClientError, and lets a ClientError of f through without dispatching
\* an event.
C25_ThrowAsNoThrow ==
    /\ [](asserted.op = "throw_as" =>
            IF ~FunctorRaises THEN Asserted(FALSE)
            ELSE IF Catches(asserted.E, asserted.f.e) THEN Asserted(TRUE)
            ELSE Propagated(asserted.f.e))
    /\ [](asserted.op = "no_throw" =>
            IF ~FunctorRaises THEN Asserted(TRUE)
            ELSE IF asserted.f.e.type # "ClientError" THEN Asserted(FALSE)
            ELSE Propagated(ClientError))
    /\ [][asserted'.op \in {"throw_as", "no_throw"} => RaisingCallIsSilent]_vars

\* C25 witness: throw_as<std::runtime_error> of a functor that raises a
\* Skip, which is a std::runtime_error, has called the Success Handler and
\* returned true.
C25_Witness ==
    /\ JustAsserted({"throw_as"})
    /\ asserted.E = "std::runtime_error"
    /\ asserted.f.e.type = "Skip" /\ asserted.f.at = 1
    /\ asserted.ret = Returned(BoolValue(TRUE))
    /\ Registered(Success)
    /\ Last(calls).event = Success

\* The step dispatches exactly one event, a Timing event: one handle()
\* call, one Handler call if a Handler is registered for Timing, one count.
OneTimingEvent ==
    /\ Len(trace') = Len(trace) + 1
    /\ Last(trace').event = Timing
    /\ Len(calls') = Len(calls) + (IF Registered(Timing) THEN 1 ELSE 0)
    /\ Registered(Timing) => Last(calls').event = Timing
    /\ counters'.vec[Timing + 1] = counters.vec[Timing + 1] + 1
    /\ \A e \in Events \ {Timing} : counters'.vec[e + 1] = counters.vec[e + 1]

\* A timing call has ended in this step: with a functor that raises within
\* the n invocations nothing is dispatched; otherwise f has been invoked n
\* times and one Timing event carries the seconds, n and the average.
TimingStep ==
    LET a == asserted'
    IN IF a.f.at # 0 /\ a.f.at <= a.n
       THEN /\ a.ret = Raised(a.f.e)
            /\ a.invoked = a.f.at
            /\ UNCHANGED <<trace, calls, counters>>
       ELSE /\ a.invoked = a.n
            /\ a.ret = Returned(RealValue(a.elapsed))
            /\ OneTimingEvent
            /\ Len(Last(trace').ts) = 3
            /\ Last(trace').ts[1] = Glue("seconds", RealValue(a.elapsed))
            /\ Last(trace').ts[2] = Glue("repeats", SizeValue(a.n))
            /\ Last(trace').ts[3].key = "average"
            /\ a.n # 0 => Last(trace').ts[3].value.n * a.n = a.elapsed

\* A timed call has ended in this step: f has been invoked once; if it
\* raised nothing is dispatched, otherwise one Timing event carries the
\* seconds and the call returns what f returned.
TimedStep ==
    LET a == asserted'
    IN /\ a.invoked = 1
       /\ IF a.f.at = 1
          THEN a.ret = Raised(a.f.e) /\ UNCHANGED <<trace, calls, counters>>
          ELSE /\ a.ret = Returned(a.f.value)
               /\ OneTimingEvent
               /\ Last(trace').ts[1] = Glue("seconds", RealValue(a.elapsed))

\* C26: timing(n, f) invokes f exactly n times and then dispatches exactly
\* one Timing event (seconds, repeats = n, average), for every n, 0
\* included; timed(f) invokes f once, dispatches exactly one Timing event
\* after f has returned and returns f's result; if f raises, no Timing
\* event is dispatched.
C26_Timing ==
    [][(asserted' # asserted \/ steps' # steps) =>
          /\ asserted'.op = "timing" => TimingStep
          /\ asserted'.op = "timed" => TimedStep]_vars

\* C26 witness: timing(0, f) has returned: f was never invoked, and a
\* Timing event with repeats = 0 and an average that is no number has been
\* dispatched to the Timing Handler.
C26_Witness ==
    /\ JustAsserted({"timing"})
    /\ asserted.n = 0 /\ asserted.invoked = 0
    /\ Registered(Timing)
    /\ Last(calls).event = Timing
    /\ Last(trace).ts[2] = Glue("repeats", SizeValue(0))
    /\ Last(trace).ts[3] = Glue("average", NotANumber)

\* C27: within(tolerance, l, r) dispatches Success iff l = r or
\* |l - r| < tolerance, and Failure otherwise: within(1, 5, 5) succeeds and
\* within(1, 5, 7), whose difference exceeds the tolerance, fails.
C27_WithinTolerance ==
    JustAsserted({"within"}) =>
        LET a == asserted
            d == IF a.l < a.r THEN a.r - a.l ELSE a.l - a.r
            ok == a.l = a.r \/ d < a.tol
        IN /\ Last(trace).event = (IF ok THEN Success ELSE Failure)
           /\ a.ret = Returned(BoolValue(ok))

\* The threads whose run(i) or call(name) has ended and was to invoke a
\* TestCase whose function is unset.
InvokedUnset ==
    {t \in Threads :
        /\ Done(t)
        /\ \/ /\ threads[t].op.fn = "run"
              /\ threads[t].op.index < Len(threads[t].seen)
              /\ threads[t].seen[threads[t].op.index + 1].body = "unset"
           \/ /\ threads[t].op.fn = "call"
              /\ Matches(threads[t].seen, threads[t].op.name) # {}
              /\ threads[t].seen[Earliest(threads[t].seen, threads[t].op.name)].body
                     = "unset"}

\* C28: invoking a registered TestCase whose function is unset, by run(i)
\* or by call(name), raises an error to the caller: run raises the
\* runtime_error of run_test and call the error of the empty function;
\* neither ends as a run that returned a result.
C28_UnsetFunctionRaises ==
    \A t \in InvokedUnset :
        /\ threads[t].result.kind = "raised"
        /\ threads[t].result =
               RaisedResult(IF threads[t].op.fn = "run" THEN empty_function
                            ELSE bad_function_call)

\* C28 witness: run(0) and call("u") have both met the TestCase "u" whose
\* function is unset; the one has raised "Test case has empty
\* std::function", the other std::bad_function_call.
C28_Witness ==
    \E t, u \in InvokedUnset :
        /\ threads[t].op = RunOp(0)
        /\ threads[t].result = RaisedResult(empty_function)
        /\ threads[u].op.fn = "call" /\ threads[u].op.name = "u"
        /\ threads[u].result = RaisedResult(bad_function_call)

\* Some thread can take a step of the driver or of a call by name.
CanRun ==
    \/ CanStep
    \/ \E t \in Threads : ENABLED (GetTest(t) \/ BuildPack(t) \/ RunTestCase(t)
                                      \/ BodyAddValue(t) \/ BodyGetValue(t))

\* The runs by index in progress, and the bodies they have started.
Running == {t \in Threads : Depth(t) > 0 /\ threads[t].stack[1].op.fn = "run"}
InBody == {t \in Running : threads[t].stack[1].pc \in {"body", "return"}}

\* C31: run(i, ...) copies the TestCase out of the suite under the shared
\* lock and releases it before the body is invoked: while the body runs
\* the thread holds no lock of its own, so the body's add_value, set_value
\* and get_value calls never wait for the run itself and the run
\* completes; the value "add-get-value" adds is the one its own get_value
\* returns next.
C31_RunReleasesLock ==
    /\ \A t \in InBody :
          /\ threads[t].stack[1].lock = "none"
          /\ Depth(t) = 1 => (mutex.shared[t] = 0 /\ mutex.writer # t)
          /\ threads[t].stack[1].got \in {NoResult, ValueResult(RealValue(2))}
    /\ Running # {} => CanRun
    /\ \A t \in Threads :
          (Done(t) /\ threads[t].op = RunOp(2)) =>
              /\ threads[t].result = ValueResult(EmptyValue)
              /\ \E i \in 1..Len(threads[t].seen) :
                    /\ threads[t].seen[i] = ValueCase("max_time", RealValue(2), MaxThreads + t)
                    /\ \A j \in 1..(i - 1) : threads[t].seen[j].name # "max_time"
                                              \/ threads[t].seen[j].value = RealValue(2)

\* C31 witness: while another thread's run of "add-get-value" is between
\* its add_value and its get_value, a run of the same test has returned
\* with the value it added in the suite.
C31_Witness ==
    \E t, u \in Threads :
        /\ Done(t) /\ threads[t].op = RunOp(2)
        /\ threads[t].result = ValueResult(EmptyValue)
        /\ u \in InBody /\ threads[u].stack[1].test.body = "add_get"
        /\ Depth(u) = 2 /\ threads[u].stack[2].op.fn = "get_value"

\* The runs by index that have ended, and those that ended with one of the
\* two index errors.
RunDone == {t \in Threads : Done(t) /\ threads[t].op.fn = "run"}
IndexFailures == {RaisedResult(IndexError), RaisedResult(ParamIndexError)}

\* A run by index fails with an index error in this step: no body was
\* entered, and the step dispatches nothing and leaves the suite alone.
IndexFailureIsSilent ==
    \A t \in Threads :
        (~Done(t) /\ Done(t)' /\ threads'[t].op.fn = "run"
                  /\ threads'[t].result \in IndexFailures) =>
            /\ Depth(t) = 1 /\ Top(t).pc \in {"in", "pack"}
            /\ UNCHANGED <<cases, version, registered, erasures, trace, calls, counters>>

\* C33: run(i, handlers, n, ...) with an integer n runs the test with its
\* n-th parameter set when n is less than the number of its parameter
\* sets and fails with "Parameter pack index out of range" otherwise; an
\* index i that is not below the number of TestCases fails with "Unit test
\* index out of range"; a run that fails in either way has entered no
\* body, dispatched no event and left the suite unchanged.
C33_IndexOutOfRange ==
    /\ [](\A t \in RunDone :
            LET op == threads[t].op
                r == threads[t].result
            IN /\ op.index >= Len(threads[t].seen) => r = RaisedResult(IndexError)
               /\ r = RaisedResult(IndexError) => op.index >= Len(initial)
               /\ op.index < Len(initial) =>
                     LET c == initial[op.index + 1]
                     IN IF op.param >= Len(c.parameters)
                        THEN r = RaisedResult(ParamIndexError) /\ op.pack = <<>>
                        ELSE /\ r \notin IndexFailures
                             /\ op.pack = IF op.param < 0 THEN <<>>
                                           ELSE c.parameters[op.param + 1])
    /\ [][IndexFailureIsSilent]_vars

\* C33 witness: of two runs of the test "t", which has one parameter set,
\* the one with n = 0 has run it with that set and the one with n = 1 has
\* failed with "Parameter pack index out of range".
C33_Witness ==
    \E t, u \in RunDone :
        /\ threads[t].op.index = 1 /\ threads[t].op.param = 0
        /\ threads[t].op.pack = <<IntegerValue(1)>>
        /\ threads[t].result = ValueResult(EmptyValue)
        /\ threads[u].op = RunParamOp(1, 1)
        /\ threads[u].result = RaisedResult(ParamIndexError)

\* The test raised something other than a ClientError: its body did, or
\* the adapter did for it on an arity mismatch or a failed conversion.
TestRaised == origin \in {"body", "arity", "conversion"} /\ exc.type # "ClientError"

\* The Exception and Skipped events dispatched so far.
Reported == Dispatched(Exception) \cup Dispatched(Skipped)

\* C32 as stated: whenever the test raises anything other than a
\* ClientError, run_test returns normally with an empty Value; a
\* ClientError of the body is re-raised.
C32_Original ==
    pc = "done" =>
        /\ TestRaised => driver = Returned(EmptyValue)
        /\ exc.type = "ClientError" => driver = Raised(ClientError)

\* C32, amended: when the test raises anything other than a ClientError
\* (Skip and arity mismatch included) and the Handler called for the
\* resulting event does not raise, run_test returns normally with an empty
\* Value and the condition shows only in the one Exception or Skipped event
\* dispatched and its counter; a ClientError, whether the body raised it or
\* the Handler of that event did, is re-raised to the caller of run_test.
C32_RunTestAbsorbs ==
    pc = "done" =>
        /\ (TestRaised /\ ~ceRaised) =>
              /\ driver = Returned(EmptyValue)
              /\ result = Raised(exc)
              /\ Cardinality(Reported) = 1
              /\ \A i \in Reported :
                    (counters.attached /\ Len(counters.vec) > trace[i].event) =>
                        count(trace[i].event) >= 1
        /\ (TestRaised /\ ceRaised) =>
              /\ driver = Raised(ClientError)
              /\ \E i \in Reported : trace[i].event \in throwing
        /\ exc.type = "ClientError" => driver = Raised(ClientError)

\* C32 witness: the body threw a std::runtime_error, one Exception event
\* was dispatched and counted, and run_test has returned an empty Value.
C32_Witness ==
    /\ pc = "done" /\ BodyFailed /\ ~ceRaised
    /\ exc.type = "std::runtime_error"
    /\ Cardinality(Dispatched(Exception)) = 1
    /\ counters.attached /\ Len(counters.vec) > Exception /\ count(Exception) = 1
    /\ driver = Returned(EmptyValue)

\* The Traceback events the body's Context copy has dispatched.
BodyTracebacks == {i \in Dispatched(Traceback) : trace[i].id = "body"}

\* C35: once a body has exited by exception and its Context copy is
\* destroyed, that copy has dispatched exactly one Traceback event, and
\* every Exception or Skipped event of the adapter comes after it, on the
\* caller's Context; a body that returned normally leaves no Traceback
\* event at all.
C35_TracebackFirst ==
    /\ (origin = "body" /\ pc \in {"catch", "driver", "done"}) =>
          /\ Cardinality(BodyTracebacks) = 1
          /\ \A i \in BodyTracebacks : \A j \in Reported : i < j /\ trace[j].id = "ct"
          /\ (AdapterDone /\ exc.type # "ClientError") => Cardinality(Reported) = 1
          /\ (counters.attached /\ Len(counters.vec) > Traceback) => count(Traceback) >= 1
    /\ (origin = "none" /\ AdapterDone) => Dispatched(Traceback) = {}

\* C35 witness: the body threw a Skip; the Handler of Traceback was called
\* for the body's Context and the Handler of Skipped after it.
C35_Witness ==
    /\ AdapterDone /\ origin = "body" /\ exc.type = "Skip"
    /\ Len(calls) >= 2
    /\ calls[Len(calls) - 1].event = Traceback /\ Last(calls).event = Skipped
    /\ Cardinality(BodyTracebacks) = 1 /\ Cardinality(Dispatched(Skipped)) = 1

\* The ordinary entries of a Context: those behind the reserved prefix.
Ordinary(c) == SubSeq(c.logs, c.reserved_logs + 1, Len(c.logs))

\* An info() or operator() call on the body's Context: reserved_logs stays.
InfoStep ==
    pending' # pending /\ pending' # <<>> =>
        /\ ctx'["body"].reserved_logs = ctx["body"].reserved_logs
        /\ Len(ctx'["body"].logs) = Len(ctx["body"].logs) + 1

\* A capture() call on the body's Context: reserved_logs grows by the
\* number of entries added, and the ordinary entries keep their order.
CaptureStep ==
    captured' # captured =>
        /\ ctx'["body"].reserved_logs
               = ctx["body"].reserved_logs + (Len(ctx'["body"].logs) - Len(ctx["body"].logs))
        /\ Len(ctx'["body"].logs) = Len(ctx["body"].logs) + 2
        /\ Ordinary(ctx'["body"]) = Ordinary(ctx["body"])
        /\ Ordinary(ctx'["body"]) = pending

\* C37: in every reachable state of every Context reserved_logs <=
\* logs.size(); info and operator() leave reserved_logs as it is, capture()
\* raises it by exactly the number of entries it added and leaves the
\* ordinary entries logged before it in their order.
C37_ReservedLogs ==
    /\ [](\A id \in DOMAIN ctx :
            /\ ctx[id].reserved_logs >= 0
            /\ ctx[id].reserved_logs <= Len(ctx[id].logs))
    /\ [][InfoStep /\ CaptureStep]_vars

\* C37 witness: after a message, a capture and another message the
\* Context holds the two captured entries ahead of the two messages.
C37_Witness ==
    /\ pc = "body"
    /\ ctx["body"].reserved_logs = 2 /\ Len(ctx["body"].logs) = 4
    /\ SubSeq(ctx["body"].logs, 1, 2) = captured
    /\ Ordinary(ctx["body"]) = pending
    /\ pending[1].value = CStrValue(<<P("message "), NP(1)>>)
    /\ captured[1].value = IntegerValue(2)

\* The event a throw_as or no_throw call is to dispatch for its functor.
EventFor(a) ==
    IF a.op = "throw_as"
    THEN IF a.f.at = 1 /\ Catches(a.E, a.f.e) THEN Success ELSE Failure
    ELSE IF a.f.at = 1 THEN Failure ELSE Success

\* The functor's exception is neither caught nor reported by the call.
PassesThrough(a) ==
    /\ a.f.at = 1
    /\ IF a.op = "throw_as" THEN ~Catches(a.E, a.f.e) ELSE a.f.e.type = "ClientError"

\* C36: each throw_as<E>(f) or no_throw(f) call that does not let the
\* exception of f through dispatches exactly one event, the Success or
\* Failure that tells whether f raised, and if it returns it returns that
\* outcome, also when the Handler called for the event raises.
C36_OneEvent ==
    [][(asserted' # asserted /\ asserted'.op \in {"throw_as", "no_throw"}
                             /\ ~PassesThrough(asserted')) =>
          /\ Len(trace') = Len(trace) + 1
          /\ Last(trace').event = EventFor(asserted')
          /\ asserted'.ret.kind = "value" =>
                asserted'.ret = Returned(BoolValue(EventFor(asserted') = Success))]_vars

\* The Ops enumerator that names a comparator handed to all().
TagOfFunctionObject(T) ==
    CASE T = "std::equal_to" -> "eq"
      [] T = "std::not_equal_to" -> "ne"
      [] T = "std::less" -> "lt"
      [] T = "std::greater" -> "gt"
      [] T = "std::less_equal" -> "le"
      [] T = "std::greater_equal" -> "ge"
      [] OTHER -> "custom"

\* C38: the entry all(compare, l, r) logs under "__op" names the
\* comparator used: eq for std::equal_to, ne for std::not_equal_to, lt for
\* std::less, gt for std::greater, le for std::less_equal, ge for
\* std::greater_equal, and custom for any other comparator.
C38_AllOperatorTag ==
    JustAsserted({"all"}) =>
        /\ Len(Last(trace).ts) = 3
        /\ Last(trace).ts[1] = KeyValue("__lhs", VectorValue(asserted.ls))
        /\ Last(trace).ts[2] = KeyValue("__rhs", VectorValue(asserted.rs))
        /\ Last(trace).ts[3] = KeyValue("__op", OpsValue(TagOfFunctionObject(asserted.compare)))

\* The handle(e) calls of the threads 1..n that have returned.
RECURSIVE Made(_, _)
Made(e, n) == IF n = 0 THEN 0 ELSE workers[n].made[e] + Made(e, n - 1)

\* Every thread has ended.
AllJoined == \A t \in Threads : workers[t].pc = "joined"

\* C34: when threads dispatch events on Context copies that share one
\* counter array, no increment is lost: the counter of each event kind the
\* array covers always equals the number of handle() calls of that kind
\* that have returned on any thread, and once every thread has ended it
\* equals the number of handle() calls of that kind made at all.
C34_NoLostIncrement ==
    \A e \in WorkerEvents :
        Covered(e) =>
            /\ count(e) = Made(e, MaxThreads)
            /\ AllJoined => count(e) = Cardinality(Dispatched(e))

\* C34 witness: two threads were inside handle(Success) at the same time,
\* both have ended, and the counter of Success reads the two calls.
C34_Witness ==
    /\ AllJoined
    /\ workers[1].made[Success] >= 1 /\ workers[2].made[Success] >= 1
    /\ workers[1].loaded = 0 /\ workers[2].loaded = 0
    /\ workers[1].event = Success /\ workers[2].event = Success
    /\ count(Success) = workers[1].made[Success] + workers[2].made[Success]
    /\ count(Success) = Cardinality(Dispatched(Success))

====
